---- MODULE Spec2Model ----
(***************************************************************************)
(* A model of the Winlink B2F server endpoint: the per-connection session  *)
(* state machine (python/classes/WinlinkConnection.py and the older        *)
(* cms-endpoint.py) and the B2 frame parser (python/classes/B2Message.py). *)
(*                                                                         *)
(* Text and binary data are sequences of byte values 0..255, as on the     *)
(* socket.  A line of text is the sequence of its ASCII codes.             *)
(***************************************************************************)
EXTENDS Integers, Sequences, FiniteSets, TLC

VARIABLES
    variant,          \* which handler runs: "python" (WinlinkConnection) or "cms" (ConnectionHandler)
    state,            \* self.state
    next_state,       \* self.next_state
    client_callsign,  \* self.client_callsign
    client_password,  \* self.client_password
    author,           \* self.author
    version,          \* self.version
    feature_list,     \* self.feature_list
    message_queue,    \* self.message_queue (queue.Queue), head first
    inbuf,            \* bytes the peer has sent that no recv() has returned yet
    peer_closed,      \* the peer has shut its side down (recv() returns b"" once inbuf is drained)
    reads,            \* number of wait_for_input calls made so far
    trace,            \* history of the socket calls: sendall / recv loops / close, in program order
    closed,           \* the socket object has really been closed
    running,          \* handle_connection has not returned yet
    mailbox,          \* the files under mailbox/: file name -> content
    taken,            \* history: the messages message_queue.get() has returned, in order
    sent,             \* history: every byte the peer has delivered to the socket, in order
    now,              \* datetime.now(), in whole seconds
    messages,         \* the WinlinkMailMessage objects being persisted, and how far each is
    acceptor,         \* the accept loop of start_server: "listening" or "stopped"
    parked,           \* the other WinlinkConnection objects and their threads, by number
    focus,            \* the number of the connection whose thread runs next (0: none)
    b2_raw_data,      \* B2Message.raw_data
    b2_compressed_size,   \* B2Message.compressed_size (from the proposal)
    b2_decompressed_size, \* B2Message.decompressed_size (from the proposal)
    b2_result,        \* outcome of B2Message.parse
    b2_pc,            \* "idle" (no B2Message), "new" (constructed), "parsed"; "decompressed", "extracted"
    frame_src,        \* how b2_raw_data was composed: the data bytes, the block cut, the trailer
    b2_cursor,        \* sum of the indices parse has returned for the blob so far
    b2_props,         \* the proposals of the frames that follow the first one in the blob
    b2_later,         \* outcomes of parse on the blob sliced at the cursor, in order
    b2_decompressed_data, \* B2Message.decompressed_data
    b2_parts,         \* B2Message.headers, body, body_length, attachments
    payload_src       \* how the decompressed payload was composed: headers, body, attachments

vars == <<variant, state, next_state, client_callsign, client_password, author,
          version, feature_list, message_queue, inbuf, peer_closed, reads, trace,
          closed, running, mailbox, taken, sent, now, messages, acceptor, parked, focus,
          b2_raw_data, b2_compressed_size,
          b2_decompressed_size, b2_result, b2_pc, frame_src, b2_cursor, b2_props,
          b2_later, b2_decompressed_data, b2_parts, payload_src>>

storevars == <<now, messages>>

\* the connections a handler thread does not own
threadvars == <<parked, focus>>

servervars == <<acceptor, parked, focus>>

b2vars == <<b2_raw_data, b2_compressed_size, b2_decompressed_size, b2_result, b2_pc,
            frame_src, b2_cursor, b2_props, b2_later, b2_decompressed_data, b2_parts,
            payload_src>>

\* every variable but the clock, the messages and the mailbox
sessionvars == <<variant, state, next_state, client_callsign, client_password, author,
                 version, feature_list, message_queue, inbuf, peer_closed, reads, trace,
                 closed, running, taken, sent, servervars, b2vars>>

(***************************************************************************)
(* Bounds of the model.                                                    *)
(***************************************************************************)
\* wait_for_input calls explored per session
MaxReads == 5
\* longest compressed image carried by a composed frame
MaxData == 3

(***************************************************************************)
(* Program constants.                                                      *)
(***************************************************************************)
START == "START"
CONNECTED == "CONNECTED"
CALLSIGN_ENTRY == "CALLSIGN_ENTRY"
PASSWORD_VALIDATION == "PASSWORD_VALIDATION"
LOGIN_SUCCESS == "LOGIN_SUCCESS"
CLIENT_REQUEST == "CLIENT_REQUEST"
CLOSE_CONNECTION == "CLOSE_CONNECTION"

\* b'\r', the line delimiter
CR == 13
\* b'\n'
LF == 10

\* Python's None, as a value comparable with byte sequences
None == <<-1>>

\* the literals the handlers send
PromptCallsign == <<67,97,108,108,115,105,103,110,32,58,13>>      \* "Callsign :\r"
PromptPassword == <<80,97,115,115,119,111,114,100,32,58,13>>      \* "Password :\r"
BannerSID == <<91,65,82,69,68,78,95,66,82,73,68,71,69,45,49,46,48,45,66,50,70,36,93,13>>  \* "[AREDN_BRIDGE-1.0-B2F$]\r"
BannerCMS == <<67,77,83,62,13>>                                   \* "CMS>\r"
FS_Y == <<70,83,32,89,13>>                                        \* "FS Y\r"
FF_CR == <<70,70,13>>                                             \* "FF\r"
FQ_CR == <<70,81,13>>                                             \* "FQ\r"

\* the prefixes _handle_client_request dispatches on
pfxFC == <<70,67>>           \* "FC"
pfxFW == <<59,70,87,58>>     \* ";FW:"
pfxPQ == <<59,80,81,58>>     \* ";PQ:"
pfxPM == <<59,80,77,58>>     \* ";PM:"
pfxComment == <<59,32>>      \* "; "
pfxFGt == <<70,62>>          \* "F>"
pfxFF == <<70,70>>           \* "FF"

(***************************************************************************)
(* Python string and bytes operations used by the handlers.                *)
(***************************************************************************)
\* s.startswith(p)
StartsWith(s, p) == Len(s) >= Len(p) /\ SubSeq(s, 1, Len(p)) = p

\* index of the first CR of b, 0 when there is none
FirstCR(b) ==
    IF \E i \in 1..Len(b) : b[i] = CR
    THEN CHOOSE i \in 1..Len(b) : b[i] = CR /\ \A j \in 1..(i-1) : b[j] # CR
    ELSE 0

\* response.decode() succeeds: every byte of the model's inputs that is >= 0x80
\* is 0xF8..0xFF, which no UTF-8 sequence contains
Decodable(b) == \A i \in 1..Len(b) : b[i] < 128

\* s.rstrip("\r")
RECURSIVE RStripCR(_)
RStripCR(s) ==
    IF Len(s) > 0 /\ s[Len(s)] = CR THEN RStripCR(SubSeq(s, 1, Len(s) - 1)) ELSE s

\* str.isspace() for the ASCII range
IsSpace(c) == c \in {9, 10, 11, 12, 13, 28, 29, 30, 31, 32}

\* s.split(): the maximal runs of non-whitespace characters, in order
RECURSIVE SplitWS(_, _, _)
SplitWS(s, i, cur) ==
    IF i > Len(s)
    THEN IF cur = <<>> THEN <<>> ELSE <<cur>>
    ELSE IF IsSpace(s[i])
         THEN (IF cur = <<>> THEN <<>> ELSE <<cur>>) \o SplitWS(s, i + 1, <<>>)
         ELSE SplitWS(s, i + 1, Append(cur, s[i]))

Split(s) == SplitWS(s, 1, <<>>)

\* s.split(sep) for a one-character separator: every separator cuts, empty fields kept
RECURSIVE SplitOn(_, _, _, _)
SplitOn(s, sep, i, cur) ==
    IF i > Len(s)
    THEN <<cur>>
    ELSE IF s[i] = sep
         THEN <<cur>> \o SplitOn(s, sep, i + 1, <<>>)
         ELSE SplitOn(s, sep, i + 1, Append(cur, s[i]))

IsDigit(c) == c \in 48..57

\* the digits-and-underscores part of an int() literal is well formed
IntBodyOk(s) ==
    /\ Len(s) > 0
    /\ IsDigit(s[1]) /\ IsDigit(s[Len(s)])
    /\ \A i \in 1..Len(s) : IsDigit(s[i]) \/ s[i] = 95
    /\ \A i \in 1..(Len(s) - 1) : ~(s[i] = 95 /\ s[i + 1] = 95)

RECURSIVE IntBodyVal(_, _, _)
IntBodyVal(s, i, acc) ==
    IF i > Len(s) THEN acc
    ELSE IF s[i] = 95 THEN IntBodyVal(s, i + 1, acc)
         ELSE IntBodyVal(s, i + 1, acc * 10 + (s[i] - 48))

\* s.strip()
RECURSIVE Strip(_)
Strip(s) ==
    IF Len(s) > 0 /\ IsSpace(s[1]) THEN Strip(Tail(s))
    ELSE IF Len(s) > 0 /\ IsSpace(s[Len(s)]) THEN Strip(SubSeq(s, 1, Len(s) - 1))
    ELSE s

\* int(text) for ASCII text: surrounding whitespace, a sign, digits with single
\* underscores between them; [ok |-> FALSE] stands for ValueError
PyInt(text) ==
    LET s == Strip(text)
        signed == Len(s) > 0 /\ s[1] \in {43, 45}
        body == IF signed THEN SubSeq(s, 2, Len(s)) ELSE s
    IN  IF IntBodyOk(body)
        THEN [ok |-> TRUE,
              val |-> IF signed /\ s[1] = 45 THEN 0 - IntBodyVal(body, 1, 0)
                      ELSE IntBodyVal(body, 1, 0)]
        ELSE [ok |-> FALSE, val |-> 0]

\* re.match(r"^\[.*\]$", s): '.' matches no newline, '$' also matches before a final newline
MatchSID(s) ==
    LET t == IF Len(s) > 0 /\ s[Len(s)] = LF THEN SubSeq(s, 1, Len(s) - 1) ELSE s
    IN  /\ Len(t) >= 2
        /\ t[1] = 91
        /\ t[Len(t)] = 93
        /\ \A i \in 2..(Len(t) - 1) : t[i] # LF

(***************************************************************************)
(* B2Message (python/classes/B2Message.py).  Indices are 0-based as in the  *)
(* source; At and Slice give Python's raw_data[i] and raw_data[a:b].       *)
(***************************************************************************)
SOH == 1
NUL == 0
STX == 2
EOT == 4

Min(a, b) == IF a < b THEN a ELSE b

\* raw[i] is defined (no IndexError)
InRange(raw, i) == i >= 0 /\ i < Len(raw)

At(raw, i) == raw[i + 1]

\* raw[a:b]: a slice never fails, it is cut at the end of raw
Slice(raw, a, b) == SubSeq(raw, a + 1, Min(b, Len(raw)))

\* raw.index(v, start), -1 when v does not occur (ValueError)
IndexOf(raw, v, start) ==
    IF \E i \in start..(Len(raw) - 1) : At(raw, i) = v
    THEN CHOOSE i \in start..(Len(raw) - 1) :
             At(raw, i) = v /\ \A j \in start..(i - 1) : At(raw, j) # v
    ELSE -1

RECURSIVE SumBytes(_)
SumBytes(b) ==
    IF b = <<>> THEN 0
    ELSE IF Len(b) = 1 THEN b[1]
    ELSE LET half == Len(b) \div 2
         IN  SumBytes(SubSeq(b, 1, half)) + SumBytes(SubSeq(b, half + 1, Len(b)))

\* x & 0xFF on a Python integer (two's complement of unbounded width)
And0xFF(x) == x % 256

\* _calculate_checksum: ((sum & 0xFF) * -1) & 0xFF
\* a _calculate_checksum that leaves out the negation
calculate_checksum_unnegated(compressed_data) == And0xFF(SumBytes(compressed_data))

calculate_checksum(compressed_data) ==
    LET checksum == And0xFF(SumBytes(compressed_data))
    IN  And0xFF(checksum * (-1))

\* int.from_bytes(b, byteorder='little')
RECURSIVE FromBytesLE(_)
FromBytesLE(b) == IF b = <<>> THEN 0 ELSE Head(b) + 256 * FromBytesLE(Tail(b))

Failed(err, byte_index, compressed_data) ==
    [ok |-> FALSE, err |-> err, index |-> byte_index, compressed_data |-> compressed_data]

\* a block loop that takes a block of length 0 for a malformed block
RECURSIVE parse_blocks_no_empty(_, _, _)
parse_blocks_no_empty(raw, byte_index, compressed_data) ==
    IF ~InRange(raw, byte_index) THEN Failed("IndexError", byte_index, compressed_data)
    ELSE IF At(raw, byte_index) = STX
    THEN IF ~InRange(raw, byte_index + 1)
         THEN Failed("IndexError", byte_index + 1, compressed_data)
         ELSE LET stx_block_length == At(raw, byte_index + 1)
                  first == byte_index + 2
              IN  IF stx_block_length = 0
                  THEN Failed("Malformed", byte_index, compressed_data)
                  ELSE parse_blocks_no_empty(raw, first + stx_block_length,
                               compressed_data \o Slice(raw, first, first + stx_block_length))
    ELSE IF At(raw, byte_index) = EOT
    THEN IF ~InRange(raw, byte_index + 1)
         THEN Failed("IndexError", byte_index + 1, compressed_data)
         ELSE IF At(raw, byte_index + 1) # calculate_checksum(compressed_data)
              THEN Failed("Checksum", byte_index + 2, compressed_data)
              ELSE [ok |-> TRUE, err |-> "", index |-> byte_index + 2,
                    compressed_data |-> compressed_data]
    ELSE Failed("Malformed", byte_index, compressed_data)

\* a block loop that returns the index of the checksum byte
RECURSIVE parse_blocks_index_short(_, _, _)
parse_blocks_index_short(raw, byte_index, compressed_data) ==
    IF ~InRange(raw, byte_index) THEN Failed("IndexError", byte_index, compressed_data)
    ELSE IF At(raw, byte_index) = STX
    THEN IF ~InRange(raw, byte_index + 1)
         THEN Failed("IndexError", byte_index + 1, compressed_data)
         ELSE LET stx_block_length == At(raw, byte_index + 1)
                  first == byte_index + 2
              IN  parse_blocks_index_short(raw, first + stx_block_length,
                               compressed_data \o Slice(raw, first, first + stx_block_length))
    ELSE IF At(raw, byte_index) = EOT
    THEN IF ~InRange(raw, byte_index + 1)
         THEN Failed("IndexError", byte_index + 1, compressed_data)
         ELSE IF At(raw, byte_index + 1) # calculate_checksum(compressed_data)
              THEN Failed("Checksum", byte_index + 1, compressed_data)
              ELSE [ok |-> TRUE, err |-> "", index |-> byte_index + 1,
                    compressed_data |-> compressed_data]
    ELSE Failed("Malformed", byte_index, compressed_data)

\* the while True loop of parse: STX blocks up to EOT and the checksum
RECURSIVE parse_blocks(_, _, _)
parse_blocks(raw, byte_index, compressed_data) ==
    IF ~InRange(raw, byte_index) THEN Failed("IndexError", byte_index, compressed_data)
    ELSE IF At(raw, byte_index) = STX
    THEN IF ~InRange(raw, byte_index + 1)
         THEN Failed("IndexError", byte_index + 1, compressed_data)
         ELSE LET stx_block_length == At(raw, byte_index + 1)
                  first == byte_index + 2
              IN  parse_blocks(raw, first + stx_block_length,
                               compressed_data \o Slice(raw, first, first + stx_block_length))
    ELSE IF At(raw, byte_index) = EOT
    THEN IF ~InRange(raw, byte_index + 1)
         THEN Failed("IndexError", byte_index + 1, compressed_data)
         ELSE IF At(raw, byte_index + 1) # calculate_checksum(compressed_data)
              THEN Failed("Checksum", byte_index + 2, compressed_data)
              ELSE [ok |-> TRUE, err |-> "", index |-> byte_index + 2,
                    compressed_data |-> compressed_data]
    ELSE Failed("Malformed", byte_index, compressed_data)

\* size checks in the other order: the decompressed length first
parse_sizes_decompressed_first(r, compressed_size, decompressed_size) ==
    IF ~r.ok THEN r
    ELSE IF FromBytesLE(Slice(r.compressed_data, 2, 6)) # decompressed_size
    THEN Failed("DecompressedSize", r.index, r.compressed_data)
    ELSE IF Len(r.compressed_data) # compressed_size
    THEN Failed("CompressedSize", r.index, r.compressed_data)
    ELSE r

\* size checks that leave out the comparison of the decompressed length
parse_sizes_compressed_only(r, compressed_size, decompressed_size) ==
    IF ~r.ok THEN r
    ELSE IF Len(r.compressed_data) # compressed_size
    THEN Failed("CompressedSize", r.index, r.compressed_data)
    ELSE r

\* the two size checks that follow the loop
parse_sizes(r, compressed_size, decompressed_size) ==
    IF ~r.ok THEN r
    ELSE IF Len(r.compressed_data) # compressed_size
    THEN Failed("CompressedSize", r.index, r.compressed_data)
    ELSE IF FromBytesLE(Slice(r.compressed_data, 2, 6)) # decompressed_size
    THEN Failed("DecompressedSize", r.index, r.compressed_data)
    ELSE r

\* B2Message.parse up to the size checks: ok with the index of the next
\* unprocessed byte, or the exception that ends it
parse(raw, compressed_size, decompressed_size) ==
    LET end_subject == IndexOf(raw, NUL, 2)
        end_offset == IndexOf(raw, NUL, end_subject + 1)
        offset == PyInt(Slice(raw, end_subject + 1, end_offset))
        byte_index == end_offset + 1
    IN  IF ~InRange(raw, 0) THEN Failed("IndexError", 0, <<>>)
        ELSE IF At(raw, 0) # SOH THEN Failed("SOH", 0, <<>>)
        ELSE IF ~InRange(raw, 1) THEN Failed("IndexError", 1, <<>>)
        ELSE IF end_subject < 0 THEN Failed("NoNUL", 2, <<>>)
        ELSE IF ~Decodable(Slice(raw, 2, end_subject)) THEN Failed("ascii", 2, <<>>)
        ELSE IF end_offset < 0 THEN Failed("NoNUL", end_subject + 1, <<>>)
        ELSE IF ~Decodable(Slice(raw, end_subject + 1, end_offset))
        THEN Failed("ascii", end_subject + 1, <<>>)
        ELSE IF ~offset.ok THEN Failed("offset", end_subject + 1, <<>>)
        ELSE IF offset.val # 0
        THEN IF ~InRange(raw, byte_index) THEN Failed("IndexError", byte_index, <<>>)
             ELSE IF At(raw, byte_index) # STX
             THEN Failed("lead-bytes", byte_index, <<>>)
             ELSE IF ~InRange(raw, byte_index + 1)
             THEN Failed("IndexError", byte_index + 1, <<>>)
             ELSE IF At(raw, byte_index + 1) # 6
             THEN Failed("lead-bytes", byte_index, <<>>)
             ELSE parse_sizes(parse_blocks(raw, byte_index + 8,
                                           Slice(raw, byte_index + 2, byte_index + 8)),
                              compressed_size, decompressed_size)
        ELSE parse_sizes(parse_blocks(raw, byte_index, <<>>),
                         compressed_size, decompressed_size)

(***************************************************************************)
(* B2Message._extract_message_parts: headers, body and attachments of the  *)
(* decompressed payload.                                                   *)
(***************************************************************************)
CRLF == <<13, 10>>

\* the header names the loop over the header lines tests
hdrBody == <<66,111,100,121,58,32>>                               \* "Body: "
hdrDate == <<68,97,116,101,58,32>>                                \* "Date: "
hdrFrom == <<70,114,111,109,58,32>>                               \* "From: "
hdrSubject == <<83,117,98,106,101,99,116,58,32>>                  \* "Subject: "
hdrTo == <<84,111,58,32>>                                         \* "To: "
hdrXLocation == <<88,45,76,111,99,97,116,105,111,110,58,32>>      \* "X-Location: "
hdrFile == <<70,105,108,101,58,32>>                               \* "File: "

\* position (1-based) of the first occurrence of sub in s, 0 when there is none
FindSub(s, sub) ==
    LET at == {i \in 1..(Len(s) - Len(sub) + 1) : SubSeq(s, i, i + Len(sub) - 1) = sub}
    IN  IF at = {} THEN 0 ELSE CHOOSE i \in at : \A j \in at : i <= j

\* s.split(sep, 1): one part when sep does not occur, else the text before the
\* first sep and everything after it
SplitOnce(s, sep) ==
    LET i == FindSub(s, sep)
    IN  IF i = 0 THEN <<s>>
        ELSE <<SubSeq(s, 1, i - 1), SubSeq(s, i + Len(sep), Len(s))>>

IsAscii(c) == c < 128

\* b.decode('ascii', errors='ignore'): the bytes >= 0x80 are dropped
DecodeIgnore(b) == SelectSeq(b, IsAscii)

\* a slice bound n applied to a sequence of length len: negative bounds count
\* from the end, every bound is clamped to 0..len
PyIdx(n, len) ==
    IF n < 0 THEN (IF len + n < 0 THEN 0 ELSE len + n) ELSE Min(n, len)

\* b[:n]
SliceTo(b, n) == SubSeq(b, 1, PyIdx(n, Len(b)))

\* b[n:]
SliceFrom(b, n) == SubSeq(b, PyIdx(n, Len(b)) + 1, Len(b))

AllDigits(s) == \A i \in 1..Len(s) : IsDigit(s[i])

\* value of a string of decimal digits
Digits(s) == IntBodyVal(s, 1, 0)

\* calendar: days of month m of year y
DaysIn(y, m) ==
    IF m \in {4, 6, 9, 11} THEN 30
    ELSE IF m # 2 THEN 31
    ELSE IF (y % 4 = 0 /\ y % 100 # 0) \/ y % 400 = 0 THEN 29 ELSE 28

\* datetime.strptime(text, "%Y/%m/%d %H:%M") returns (no ValueError): four
\* digits of year, one or two digits of month, day, hour and minute in range,
\* whitespace where the format has its blank, and nothing before or after
StrptimeOk(text) ==
    LET f == SplitOn(text, 47, 1, <<>>)
    IN  /\ Len(f) = 3
        /\ Len(f[1]) = 4 /\ AllDigits(f[1]) /\ Digits(f[1]) >= 1
        /\ Len(f[2]) \in 1..2 /\ AllDigits(f[2]) /\ Digits(f[2]) \in 1..12
        /\ LET padded == Len(f[3]) > 2 /\ f[3][1] = 32 /\ f[3][2] \in 49..57
               g == IF padded THEN Tail(f[3]) ELSE f[3]
               toks == Split(g)
           IN  /\ Len(toks) = 2
               /\ StartsWith(g, toks[1])
               /\ SubSeq(g, Len(g) - Len(toks[2]) + 1, Len(g)) = toks[2]
               /\ Len(toks[1]) \in 1..2 /\ AllDigits(toks[1])
               /\ (padded => Len(toks[1]) = 1)
               /\ Digits(toks[1]) \in 1..DaysIn(Digits(f[1]), Digits(f[2]))
               /\ LET hm == SplitOn(toks[2], 58, 1, <<>>)
                  IN  /\ Len(hm) = 2
                      /\ Len(hm[1]) \in 1..2 /\ AllDigits(hm[1]) /\ Digits(hm[1]) \in 0..23
                      /\ Len(hm[2]) \in 1..2 /\ AllDigits(hm[2]) /\ Digits(hm[2]) \in 0..59

\* float(text) returns (no ValueError), for plain decimal literals: an optional
\* sign, digits, and at most one point with a digit on one side of it
FloatOk(text) ==
    LET s == Strip(text)
        body == IF Len(s) > 0 /\ s[1] \in {43, 45} THEN Tail(s) ELSE s
        f == SplitOn(body, 46, 1, <<>>)
    IN  /\ Len(f) \in 1..2
        /\ \A i \in 1..Len(f) : AllDigits(f[i])
        /\ \E i \in 1..Len(f) : Len(f[i]) > 0

\* line.replace(",", "")
RECURSIVE RemoveCommas(_)
RemoveCommas(s) ==
    IF s = <<>> THEN <<>>
    ELSE IF Head(s) = 44 THEN RemoveCommas(Tail(s))
    ELSE <<Head(s)>> \o RemoveCommas(Tail(s))

\* the fields of a B2Message that _extract_message_parts writes, as __init__
\* leaves them; date None stands for datetime.now(); raised: an exception
\* ended the extraction (parse catches and logs it)
NoParts ==
    [headers |-> <<>>, body |-> <<>>, body_length |-> 0, attachments |-> <<>>,
     sender |-> <<>>, recipient |-> <<>>, subject |-> <<>>, date |-> None,
     position |-> "default", raised |-> FALSE]

\* (the X-Location branch also sets self.to, which nothing reads)

\* B2Attachment.__init__
B2Attachment(filename, size) == [filename |-> filename, data |-> None, size |-> size]

\* one pass of the loop over the header lines
header_line(m, line) ==
    LET parts == Split(line)
        part == SplitOnce(line, <<32>>)
    IN  IF StartsWith(line, hdrBody)
        THEN IF Len(parts) > 1
             THEN IF PyInt(parts[2]).ok
                  THEN [m EXCEPT !.body_length = PyInt(parts[2]).val]
                  ELSE [m EXCEPT !.raised = TRUE]
             ELSE [m EXCEPT !.body_length = 0]
        ELSE IF StartsWith(line, hdrDate)
        THEN IF StrptimeOk(part[2]) THEN [m EXCEPT !.date = part[2]]
             ELSE [m EXCEPT !.raised = TRUE]
        ELSE IF StartsWith(line, hdrFrom) THEN [m EXCEPT !.sender = part[2]]
        ELSE IF StartsWith(line, hdrSubject) THEN [m EXCEPT !.subject = part[2]]
        ELSE IF StartsWith(line, hdrTo) THEN [m EXCEPT !.recipient = part[2]]
        ELSE IF StartsWith(line, hdrXLocation)
        THEN LET i == Split(RemoveCommas(line))
             IN  IF Len(i) = 4
                 THEN IF ~FloatOk(SliceTo(i[2], -1))
                      THEN [m EXCEPT !.raised = TRUE]      \* ValueError
                      ELSE IF i[3][Len(i[3])] = 69
                      THEN [m EXCEPT !.position = "set"]
                      ELSE [m EXCEPT !.raised = TRUE]      \* 0 - lon on a str: TypeError
                 ELSE [m EXCEPT !.position = "default"]
        ELSE IF StartsWith(line, hdrFile)
        THEN IF Len(parts) < 3 THEN [m EXCEPT !.raised = TRUE]     \* IndexError
             ELSE IF ~PyInt(parts[2]).ok THEN [m EXCEPT !.raised = TRUE]
             ELSE [m EXCEPT !.attachments =
                                Append(@, B2Attachment(parts[3], PyInt(parts[2]).val))]
        ELSE m

\* the loop over the header lines, up to the first exception
RECURSIVE header_lines_loop(_, _)
header_lines_loop(m, header_lines) ==
    IF header_lines = <<>> \/ m.raised THEN m
    ELSE header_lines_loop(header_line(m, Head(header_lines)), Tail(header_lines))

\* the loop over self.attachments
RECURSIVE attachments_loop(_, _)
attachments_loop(attachments, attachment_binary) ==
    IF attachments = <<>> THEN <<>>
    ELSE LET attachment == Head(attachments)
         IN  IF attachment.size + 2 <= Len(attachment_binary)
             THEN <<[attachment EXCEPT !.data = SliceTo(attachment_binary, attachment.size)]>>
                      \o attachments_loop(Tail(attachments),
                                          SliceFrom(attachment_binary, attachment.size + 2))
             ELSE <<attachment>> \o attachments_loop(Tail(attachments), attachment_binary)

\* B2Message._extract_message_parts on a message with the fields m
extract_message_parts(m, decompressed_data) ==
    IF decompressed_data = None \/ decompressed_data = <<>> THEN m
    ELSE LET halves == SplitOnce(decompressed_data, CRLF \o CRLF)
         IN  IF Len(halves) < 2 THEN [m EXCEPT !.raised = TRUE]    \* unpacking: ValueError
             ELSE LET split_list == SplitOnce(halves[2], CRLF)
                      body_binary == split_list[1]
                      attachment_binary == IF Len(split_list) > 1 THEN split_list[2] ELSE <<>>
                      headers == DecodeIgnore(halves[1])
                      scanned == header_lines_loop(
                                     [m EXCEPT !.headers = headers, !.body_length = 0],
                                     SplitOn(headers, LF, 1, <<>>))
                  IN  IF scanned.raised THEN scanned
                      ELSE [scanned EXCEPT
                               !.body = IF scanned.body_length = 0 THEN <<>>
                                        ELSE DecodeIgnore(body_binary),
                               !.attachments = attachments_loop(scanned.attachments,
                                                                attachment_binary)]


(***************************************************************************)
(* The peer.  Each read of a handler is given the bytes `arr` that arrive   *)
(* while it waits and, when these do not complete the read, the way the     *)
(* wait ends: "timeout" (socket.timeout) or "closed" (recv returns b"").   *)
(***************************************************************************)
\* the texts a client types at the login prompts (without the CR)
txtW6XYZ == <<87,54,88,89,90>>                                    \* "W6XYZ"
txtK6ABC == <<75,54,65,66,67>>                                    \* "K6ABC"
txtRight == <<114,105,103,104,116>>                               \* "right"
txtWrongpw == <<119,114,111,110,103,112,119>>                     \* "wrongpw"

\* command lines (without the CR)
txtSID == <<91,82,77,83,45,49,46,48,45,66,93>>                    \* "[RMS-1.0-B]"
txtFCA == <<70,67,32,69,77,32,65,32,49,48,48,32,54,32,48>>        \* "FC EM A 100 6 0"
txtFCB == <<70,67,32,69,77,32,66,32,55,32,54,32,48>>              \* "FC EM B 7 6 0"
txtFW == <<59,70,87,58,32,87,54,88,89,90>>                        \* ";FW: W6XYZ"
txtComment == <<59,32,104,105>>                                   \* "; hi"
txtFGt == <<70,62>>                                               \* "F>"
txtFF == <<70,70>>                                                \* "FF"
txtEXIT == <<69,88,73,84>>                                        \* "EXIT"

\* B2 frames: SOH len "S" NUL "0" NUL  STX 6 <6 bytes>  EOT checksum
\* frame of proposal A: compressed data FA 01 64 00 00 00 (uncompressed length 100)
FrameA == <<1,4,83,0,48,0,2,6,250,1,100,0,0,0,4,161>>
\* the same frame with its trailer byte wrong by 1
FrameABadSum == <<1,4,83,0,48,0,2,6,250,1,100,0,0,0,4,162>>
\* frame of proposal B: compressed data 02 04 07 00 00 00 (uncompressed length 7)
FrameB == <<1,4,83,0,48,0,2,6,2,4,7,0,0,0,4,243>>

Line(t) == Append(t, CR)

\* a line that is not UTF-8 (response.decode() raises UnicodeDecodeError)
txtNotUTF8 == <<255>>

CallsignArrivals == {<<>>, Line(<<>>), Line(txtW6XYZ), Line(txtK6ABC), Line(txtNotUTF8)}

PasswordArrivals == {<<>>, Line(<<>>), Line(txtRight), Line(txtWrongpw)}

CommandArrivals ==
    {<<>>, Line(<<>>), Line(txtSID), Line(txtFCA), Line(txtFCB), Line(txtFW),
     Line(txtComment), Line(txtFGt), Line(txtFF), Line(txtEXIT),
     Line(txtEXIT) \o FrameA}

\* what arrives while a payload is read: nothing, a frame, or a frame with
\* the next command line behind it
PayloadArrivals == {<<>>, FrameA, FrameABadSum, FrameB, FrameA \o Line(txtFF)}

Waits == {"timeout", "closed"}

\* once the peer has closed, nothing more arrives; the way a wait ends is
\* drawn only for a read that the bytes at hand do not complete
PeerCan(arr, how) ==
    IF peer_closed THEN arr = <<>> /\ how = "closed"
    ELSE FirstCR(inbuf \o arr) > 0 => how = "timeout"

(***************************************************************************)
(* Socket operations.                                                      *)
(***************************************************************************)
\* an entry of the trace: op is "send" (sendall), "readline" (the recv(1) loop of
\* wait_for_input; res is what it returns: "str", "none" or "raise"), "readdata"
\* (the recv(4096) loop of _wait_for_data) or "close"; data are the bytes moved
Event(op, data, res) == [op |-> op, data |-> data, res |-> res]

\* send_data: sendall(data.encode()); an exception (closed socket) is caught and logged
send_data(tr, cl, data) ==
    IF cl \/ data = <<>> THEN tr ELSE Append(tr, Event("send", data, "sent"))

\* _close_connection of WinlinkConnection: "self.connection.close" names the
\* method and does not call it
close_python(cl, tr) == [closed |-> cl, tr |-> tr]

\* _close_connection of ConnectionHandler: self.connection.close()
close_cms(cl, tr) ==
    [closed |-> TRUE,
     tr |-> IF cl THEN tr ELSE Append(tr, Event("close", <<>>, "closed"))]

close_connection(v, cl, tr) == IF v = "python" THEN close_python(cl, tr) ELSE close_cms(cl, tr)

\* wait_for_input(prompt).  kind: "str" (a string is returned, text), "none"
\* (None is returned), "raise" (an exception other than socket.timeout leaves it)
\* a wait_for_input that reads the line first and sends the prompt afterwards
wait_for_input_read_first(tr, cl, buf, pc, prompt, arr, how) ==
    LET avail == buf \o arr
        k == FirstCR(avail)
        consumed == IF k > 0 THEN SubSeq(avail, 1, k) ELSE avail
        rest == IF k > 0 THEN SubSeq(avail, k + 1, Len(avail)) ELSE <<>>
        kind == IF k = 0 /\ how = "timeout" THEN "none"
                ELSE IF Decodable(consumed) THEN "str" ELSE "raise"
        tr1 == Append(tr, Event("readline", consumed, kind))
        tr2 == send_data(tr1, cl, prompt)
    IN  IF cl
        THEN [kind |-> "raise", text |-> <<>>, tr |-> tr, buf |-> buf, pc |-> pc]
        ELSE IF kind = "none"
        THEN [kind |-> "none", text |-> <<>>, tr |-> tr2, buf |-> rest, pc |-> pc]
        ELSE [kind |-> kind,
              text |-> RStripCR(consumed),
              tr |-> tr2, buf |-> rest,
              pc |-> pc \/ k = 0]

\* a wait_for_input that takes every byte at hand in one recv and returns the
\* text before the first CR
wait_for_input_prefetch(tr, cl, buf, pc, prompt, arr, how) ==
    LET tr1 == send_data(tr, cl, prompt)
        avail == buf \o arr
        k == FirstCR(avail)
        line == IF k > 0 THEN SubSeq(avail, 1, k) ELSE avail
        kind == IF k = 0 /\ how = "timeout" THEN "none"
                ELSE IF Decodable(line) THEN "str" ELSE "raise"
        tr2 == Append(tr1, Event("readline", avail, kind))
    IN  IF cl
        THEN [kind |-> "raise", text |-> <<>>, tr |-> tr1, buf |-> buf, pc |-> pc]
        ELSE IF kind = "none"
        THEN [kind |-> "none", text |-> <<>>, tr |-> tr2, buf |-> <<>>, pc |-> pc]
        ELSE [kind |-> kind,
              text |-> RStripCR(line),
              tr |-> tr2, buf |-> <<>>,
              pc |-> pc \/ k = 0]

wait_for_input(tr, cl, buf, pc, prompt, arr, how) ==
    LET tr1 == send_data(tr, cl, prompt)
        avail == buf \o arr
        k == FirstCR(avail)
        consumed == IF k > 0 THEN SubSeq(avail, 1, k) ELSE avail
        rest == IF k > 0 THEN SubSeq(avail, k + 1, Len(avail)) ELSE <<>>
        kind == IF k = 0 /\ how = "timeout" THEN "none"
                ELSE IF Decodable(consumed) THEN "str" ELSE "raise"
        tr2 == Append(tr1, Event("readline", consumed, kind))
    IN  IF cl
        THEN \* settimeout on a closed socket: OSError
             [kind |-> "raise", text |-> <<>>, tr |-> tr1, buf |-> buf, pc |-> pc]
        ELSE IF kind = "none"
        THEN [kind |-> "none", text |-> <<>>, tr |-> tr2, buf |-> rest, pc |-> pc]
        ELSE [kind |-> kind,
              text |-> RStripCR(consumed),
              tr |-> tr2, buf |-> rest,
              pc |-> pc \/ k = 0]

\* _wait_for_data(expected_size) of WinlinkConnection, taking n bytes:
\* recv(4096) returns what has arrived, so the loop may end with more than
\* expected_size bytes; with fewer only when the wait times out or the peer closes
wait_for_data(tr, buf, pc, expected_size, arr, how, n) ==
    LET avail == buf \o arr
        data == SubSeq(avail, 1, n)
    IN  [data |-> data,
         tr |-> Append(tr, Event("readdata", data, "data")),
         buf |-> SubSeq(avail, n + 1, Len(avail)),
         pc |-> pc \/ (expected_size > 0 /\ Len(avail) < expected_size /\ how = "closed")]

\* the byte counts _wait_for_data can return
DataLens(buf, expected_size, arr) ==
    LET avail == buf \o arr
    IN  IF expected_size <= 0 THEN {0}
        ELSE IF Len(avail) < expected_size THEN {Len(avail)}
        ELSE expected_size..Len(avail)

(***************************************************************************)
(* Command handlers.  Each yields the fields a command line leaves behind:  *)
(* ns (self.next_state), exc (an exception reaches handle_connection), and  *)
(* the queue, SID fields, trace, input buffer and socket state.            *)
(***************************************************************************)
KeepAll(tr) ==
    [ns |-> next_state, exc |-> FALSE, queue |-> message_queue,
     author |-> author, version |-> version, feature_list |-> feature_list,
     tr |-> tr, buf |-> inbuf, pc |-> peer_closed, closed |-> closed, taken |-> taken]

\* _handle_message_proposal
handle_message_proposal(k, message) ==
    LET parts == Split(message)
        uncompressed_size == PyInt(parts[4])
        compressed_size == PyInt(parts[5])
        new_message == [message_type |-> parts[2], message_id |-> parts[3],
                        uncompressed_size |-> uncompressed_size.val,
                        compressed_size |-> compressed_size.val]
    IN  IF Len(parts) >= 5
        THEN IF uncompressed_size.ok /\ compressed_size.ok
             THEN [k EXCEPT !.queue = Append(k.queue, new_message)]
             ELSE [k EXCEPT !.exc = TRUE]      \* int(): ValueError
        ELSE k                                 \* "Invalid message proposal format", logged

\* a _handle_sid that takes the second of two segments for the version
handle_sid_version_first(k, message) ==
    LET content == SubSeq(message, 2, Len(message) - 1)
        parts == SplitOn(content, 45, 1, <<>>)
        shut == close_connection(variant, k.closed, k.tr)
    IN  IF Len(parts) >= 2
        THEN [k EXCEPT !.author = parts[1],
                       !.version = parts[2],
                       !.feature_list = IF Len(parts) > 2 THEN parts[3] ELSE None]
        ELSE [k EXCEPT !.closed = shut.closed, !.tr = shut.tr, !.ns = CLOSE_CONNECTION]

\* _handle_sid / _parse_sid
handle_sid(k, message) ==
    LET content == SubSeq(message, 2, Len(message) - 1)
        parts == SplitOn(content, 45, 1, <<>>)
        shut == close_connection(variant, k.closed, k.tr)
    IN  IF Len(parts) >= 2
        THEN [k EXCEPT !.author = parts[1],
                       !.version = IF Len(parts) > 2 THEN parts[2] ELSE None,
                       !.feature_list = IF Len(parts) > 2 THEN parts[3] ELSE parts[2]]
        ELSE [k EXCEPT !.closed = shut.closed, !.tr = shut.tr, !.ns = CLOSE_CONNECTION]

\* the message the queue hands out: Queue.get() takes the oldest entry
queue_get(q) == Head(q)

\* _handle_end_of_proposal of WinlinkConnection.  The first pass of the loop
\* ends in the except clause: WinlinkMailMessage has no record_messsage_data
handle_end_of_proposal_python(k, arr, how, n) ==
    LET message == queue_get(k.queue)
        tr1 == send_data(k.tr, k.closed, FS_Y)
        d == wait_for_data(tr1, k.buf, k.pc, message.uncompressed_size, arr, how, n)
        shut == close_connection(variant, k.closed, d.tr)
    IN  IF k.queue = <<>>
        THEN k
        ELSE [k EXCEPT !.queue = Tail(k.queue), !.taken = Append(k.taken, message),
                       !.tr = shut.tr, !.buf = d.buf, !.pc = d.pc, !.closed = shut.closed]

\* _handle_end_of_proposal of ConnectionHandler.  The first pass of the loop
\* ends in the except clause: ConnectionHandler has no _wait_for_data
handle_end_of_proposal_cms(k) ==
    LET message_instance == queue_get(k.queue)
        tr1 == send_data(k.tr, k.closed, FS_Y)
        shut == close_connection(variant, k.closed, tr1)
    IN  IF k.queue = <<>>
        THEN k
        ELSE [k EXCEPT !.queue = Tail(k.queue), !.taken = Append(k.taken, message_instance),
                       !.tr = shut.tr, !.closed = shut.closed]

\* a _handle_end_of_proposal that sends "FS Y\r" before it tests the queue
handle_end_of_proposal_fs_first(k, arr, how, n) ==
    IF k.queue = <<>>
    THEN [k EXCEPT !.tr = send_data(k.tr, k.closed, FS_Y)]
    ELSE IF variant = "python" THEN handle_end_of_proposal_python(k, arr, how, n)
    ELSE handle_end_of_proposal_cms(k)

handle_end_of_proposal(k, arr, how, n) ==
    IF variant = "python" THEN handle_end_of_proposal_python(k, arr, how, n)
    ELSE handle_end_of_proposal_cms(k)

\* _handle_no_messages
handle_no_messages(k) == [k EXCEPT !.tr = send_data(k.tr, k.closed, FQ_CR)]

\* _handle_authentication_challenge and _handle_pending_message: they log
\* in WinlinkConnection; ConnectionHandler does not define them and the call
\* raises AttributeError
no_such_method(k) == IF variant = "cms" THEN [k EXCEPT !.exc = TRUE] ELSE k

\* the if/elif chain of _handle_client_request on a request that is not None
dispatch(k, request, arr, how, n) ==
    IF request # <<>>
    THEN IF StartsWith(request, pfxFC) THEN handle_message_proposal(k, request)
         ELSE IF StartsWith(request, pfxFW) THEN k
         ELSE IF StartsWith(request, pfxPQ) THEN no_such_method(k)
         ELSE IF StartsWith(request, pfxPM) THEN no_such_method(k)
         ELSE IF MatchSID(request) THEN handle_sid(k, request)
         ELSE IF StartsWith(request, pfxComment) THEN k
         ELSE IF StartsWith(request, pfxFGt) THEN handle_end_of_proposal(k, arr, how, n)
         ELSE IF StartsWith(request, pfxFF) THEN handle_no_messages(k)
         ELSE [k EXCEPT !.ns = CLOSE_CONNECTION]
    ELSE [k EXCEPT !.ns = CLOSE_CONNECTION]

\* _handle_client_request on the result w of wait_for_input("")
handle_client_request(w, arr, how, n) ==
    LET k == [KeepAll(w.tr) EXCEPT !.buf = w.buf, !.pc = w.pc]
    IN  IF w.kind = "raise" THEN [k EXCEPT !.exc = TRUE]
        ELSE IF w.kind = "none"
        THEN IF variant = "cms"
             THEN [k EXCEPT !.exc = TRUE]      \* None.rstrip: AttributeError
             ELSE [k EXCEPT !.ns = CLOSE_CONNECTION]
        ELSE dispatch(k, RStripCR(w.text), arr, how, n)

\* the bytes the command line leaves for the payload read, and the proposal
\* whose payload is read (python handler, "F>" line, queue not empty)
ReadsPayload(w) ==
    /\ variant = "python" /\ w.kind = "str" /\ message_queue # <<>>
    /\ LET r == RStripCR(w.text)
       IN  /\ StartsWith(r, pfxFGt)
           /\ ~StartsWith(r, pfxFC) /\ ~StartsWith(r, pfxFW) /\ ~StartsWith(r, pfxPQ)
           /\ ~StartsWith(r, pfxPM) /\ ~MatchSID(r) /\ ~StartsWith(r, pfxComment)

\* an exception that leaves the handler reaches the accept loop, whose try has
\* no clause for it
thread_exit_propagates(acc, exc) == IF exc THEN "stopped" ELSE acc

\* the end of a pass of the handler as the accept loop sees it: the handler
\* runs in a thread of its own and handle_connection catches Exception, so
\* nothing reaches the loop
thread_exit(acc, exc) == acc

(***************************************************************************)
(* handle_connection: one action per pass of its loop.                     *)
(***************************************************************************)
\* what follows a handler: _log_state_change(self.next_state), the loop test
\* and, when the loop ends or an exception was raised, the finally clause
LoopTail(ns, exc, cl, tr) ==
    LET exit == exc \/ ns = CLOSE_CONNECTION
        fin == IF exit THEN close_connection(variant, cl, tr) ELSE [closed |-> cl, tr |-> tr]
    IN  /\ acceptor' = thread_exit(acceptor, exc)
        /\ state' = IF exc THEN state ELSE ns
        /\ next_state' = ns
        /\ running' = ~exit
        /\ closed' = fin.closed
        /\ trace' = fin.tr

\* no B2Message exists
NoResult == [ok |-> FALSE, err |-> "", index |-> 0, compressed_data |-> <<>>]

NoFrame == [B |-> <<>>, cut |-> 0, trailer |-> 0, rest |-> <<>>]

NoPayload == [lines |-> <<>>, body |-> <<>>, atts |-> <<>>, chop |-> 0]

\* no frame has been handed to a B2Message
(***************************************************************************)
(* The server: the accept loop and the connections it has handed to        *)
(* threads.                                                                *)
(***************************************************************************)
\* connections accepted side by side
Sessions == {1, 2}

\* the fields of a WinlinkConnection as __init__ leaves them, with its socket
\* and its histories; tag: "none" (not accepted), "session" (accepted, its
\* thread waiting to run), "focus" (its fields are the session variables)
Fresh ==
    [tag |-> "session", state |-> START, next_state |-> START,
     client_callsign |-> None, client_password |-> None, author |-> None,
     version |-> None, feature_list |-> None, message_queue |-> <<>>,
     inbuf |-> <<>>, peer_closed |-> FALSE, reads |-> 0, trace |-> <<>>,
     closed |-> FALSE, running |-> TRUE, taken |-> <<>>, sent |-> <<>>]

NotAccepted == [Fresh EXCEPT !.tag = "none"]

InFocus == [Fresh EXCEPT !.tag = "focus"]

ServerIdle ==
    /\ acceptor = "listening"
    /\ parked = [i \in Sessions |-> NotAccepted]
    /\ focus = 0

(***************************************************************************)
(* The mailbox folder and the WinlinkMailMessage objects written to it.    *)
(***************************************************************************)
\* the folder exists and holds no file
EmptyMailbox == [f \in {} |-> <<>>]

\* the WinlinkMailMessage objects persisted side by side (queued by one
\* session or by two)
Messages == {1, 2}

\* a WinlinkMailMessage that has not been constructed; time_created and
\* message_id make self.filename; b2 holds the fields of self.b2 that are
\* saved; pc is the artifact save_message_to_files opens next; attachment is
\* the position of the loop of _save_attachments_to_files; attempted lists
\* the open() calls made, each with the suffix of the name and whether the
\* file was written
NoMessage ==
    [pc |-> "none", time_created |-> 0, message_id |-> <<>>, b2 |-> NoParts,
     attachment |-> 0, attempted |-> <<>>]

StoreIdle ==
    /\ now = 0
    /\ messages = [w \in Messages |-> NoMessage]

FrameIdle ==
    /\ b2_raw_data = <<>>
    /\ b2_compressed_size = 0
    /\ b2_decompressed_size = 0
    /\ b2_result = NoResult
    /\ frame_src = NoFrame
    /\ b2_cursor = 0
    /\ b2_props = <<>>
    /\ b2_later = <<>>

\* nothing has been decompressed or extracted
PartsIdle ==
    /\ b2_decompressed_data = None
    /\ b2_parts = NoParts
    /\ payload_src = NoPayload

B2Idle ==
    /\ FrameIdle
    /\ PartsIdle
    /\ b2_pc = "idle"

Init ==
    /\ variant \in {"python", "cms"}
    /\ state = START
    /\ next_state = START
    /\ client_callsign = None
    /\ client_password = None
    /\ author = None
    /\ version = None
    /\ feature_list = None
    /\ message_queue = <<>>
    /\ inbuf = <<>>
    /\ peer_closed = FALSE
    /\ reads = 0
    /\ trace = <<>>
    /\ closed = FALSE
    /\ running = TRUE
    /\ mailbox = EmptyMailbox
    /\ taken = <<>>
    /\ sent = <<>>
    /\ StoreIdle
    /\ ServerIdle
    /\ B2Idle

\* _handle_start
HandleStart ==
    /\ running /\ state = START
    /\ LoopTail(CONNECTED, FALSE, closed, trace)
    /\ UNCHANGED <<variant, client_callsign, client_password, author, version,
                   feature_list, message_queue, inbuf, peer_closed, reads, mailbox, taken, sent, storevars, threadvars, b2vars>>

\* _handle_connected
HandleConnected ==
    /\ running /\ state = CONNECTED
    /\ LoopTail(CALLSIGN_ENTRY, FALSE, closed, trace)
    /\ UNCHANGED <<variant, client_callsign, client_password, author, version,
                   feature_list, message_queue, inbuf, peer_closed, reads, mailbox, taken, sent, storevars, threadvars, b2vars>>

\* _handle_callsign_entry
HandleCallsignEntry ==
    /\ running /\ state = CALLSIGN_ENTRY /\ reads < MaxReads
    /\ \E arr \in CallsignArrivals, how \in Waits :
         /\ PeerCan(arr, how)
         /\ LET w == wait_for_input(trace, closed, inbuf, peer_closed, PromptCallsign, arr, how)
                callsign == w.kind = "str" /\ w.text # <<>>
            IN  /\ client_callsign' = IF callsign THEN w.text ELSE client_callsign
                /\ inbuf' = w.buf
                /\ peer_closed' = w.pc
                /\ sent' = IF closed THEN sent ELSE sent \o arr
                /\ LoopTail(IF w.kind = "raise" THEN next_state
                            ELSE IF callsign THEN PASSWORD_VALIDATION ELSE START,
                            w.kind = "raise", closed, w.tr)
    /\ reads' = reads + 1
    /\ UNCHANGED <<variant, client_password, author, version, feature_list,
                   message_queue, mailbox, taken, storevars, threadvars, b2vars>>

\* _handle_password_validation
HandlePasswordValidation ==
    /\ running /\ state = PASSWORD_VALIDATION /\ reads < MaxReads
    /\ \E arr \in PasswordArrivals, how \in Waits :
         /\ PeerCan(arr, how)
         /\ LET w == wait_for_input(trace, closed, inbuf, peer_closed, PromptPassword, arr, how)
                password == w.kind = "str" /\ w.text # <<>>
            IN  /\ client_password' = IF password THEN w.text ELSE client_password
                /\ inbuf' = w.buf
                /\ peer_closed' = w.pc
                /\ sent' = IF closed THEN sent ELSE sent \o arr
                /\ LoopTail(IF w.kind = "raise" THEN next_state
                            ELSE IF password THEN LOGIN_SUCCESS ELSE START,
                            w.kind = "raise", closed, w.tr)
    /\ reads' = reads + 1
    /\ UNCHANGED <<variant, client_callsign, author, version, feature_list,
                   message_queue, mailbox, taken, storevars, threadvars, b2vars>>

\* a _handle_login_success that sends no banner
HandleLoginSuccess_no_banner ==
    /\ running /\ state = LOGIN_SUCCESS
    /\ LoopTail(CLIENT_REQUEST, FALSE, closed, trace)
    /\ UNCHANGED <<variant, client_callsign, client_password, author, version,
                   feature_list, message_queue, inbuf, peer_closed, reads, mailbox, taken, sent, storevars, threadvars, b2vars>>

\* _handle_login_success
HandleLoginSuccess ==
    /\ running /\ state = LOGIN_SUCCESS
    /\ LoopTail(CLIENT_REQUEST, FALSE, closed,
                send_data(send_data(trace, closed, BannerSID), closed, BannerCMS))
    /\ UNCHANGED <<variant, client_callsign, client_password, author, version,
                   feature_list, message_queue, inbuf, peer_closed, reads, mailbox, taken, sent, storevars, threadvars, b2vars>>

\* _handle_client_request
HandleClientRequest ==
    /\ running /\ state = CLIENT_REQUEST /\ reads < MaxReads
    /\ \E arr \in CommandArrivals, how \in Waits :
         /\ PeerCan(arr, how)
         /\ LET w == wait_for_input(trace, closed, inbuf, peer_closed, <<>>, arr, how)
            IN  \E parr \in (IF ReadsPayload(w) THEN PayloadArrivals ELSE {<<>>}),
                   phow \in (IF ReadsPayload(w) THEN Waits ELSE {"timeout"}) :
                  /\ ReadsPayload(w) => (w.pc => (parr = <<>> /\ phow = "closed"))
                  /\ \E n \in (IF ReadsPayload(w)
                               THEN DataLens(w.buf, queue_get(message_queue).uncompressed_size, parr)
                               ELSE {0}) :
                       LET k == handle_client_request(w, parr, phow, n)
                       IN  /\ message_queue' = k.queue
                           /\ taken' = k.taken
                           /\ author' = k.author
                           /\ version' = k.version
                           /\ feature_list' = k.feature_list
                           /\ inbuf' = k.buf
                           /\ sent' = IF closed THEN sent ELSE sent \o arr \o parr
                           /\ peer_closed' = k.pc
                           /\ LoopTail(k.ns, k.exc, k.closed, k.tr)
    /\ reads' = reads + 1
    /\ UNCHANGED <<variant, client_callsign, client_password, mailbox, storevars, threadvars, b2vars>>

Next ==
    \/ HandleStart
    \/ HandleConnected
    \/ HandleCallsignEntry
    \/ HandlePasswordValidation
    \/ HandleLoginSuccess
    \/ HandleClientRequest

Spec == Init /\ [][Next]_vars

(***************************************************************************)
(* The frame parser on its own: a B2Message is constructed over a frame     *)
(* composed from data bytes B, cut into two STX blocks, with a trailer      *)
(* byte, and parse() is called on it.                                      *)
(***************************************************************************)
\* data byte values: NUL, SOH, STX, EOT as data, and values whose sums pass 255
DataBytes == {0, 1, 2, 4, 100, 255}

RECURSIVE SeqsUpTo(_, _)
SeqsUpTo(S, n) ==
    IF n = 0 THEN {<<>>}
    ELSE LET shorter == SeqsUpTo(S, n - 1)
         IN  shorter \cup {Append(q, x) : q \in {t \in shorter : Len(t) = n - 1}, x \in S}

\* distances of the trailer from the checksum of the data: right, off by one
\* either way, off by 128
TrailerDeltas == {0, 1, 128, 255}

\* an STX block: STX, block-length, data
Block(data) == <<STX, Len(data)>> \o data

\* the frame documented in src/classes/B2.py for offset 0: header with subject
\* "S", the data in two blocks B[1..cut] and B[cut+1..], EOT and the trailer
Compose(B, cut, trailer) ==
    <<SOH, 4, 83, NUL, 48, NUL>>
        \o Block(SubSeq(B, 1, cut)) \o Block(SubSeq(B, cut + 1, Len(B)))
        \o <<EOT, trailer>>

SessionIdle ==
    /\ variant = "python"
    /\ state = START
    /\ next_state = START
    /\ client_callsign = None
    /\ client_password = None
    /\ author = None
    /\ version = None
    /\ feature_list = None
    /\ message_queue = <<>>
    /\ inbuf = <<>>
    /\ peer_closed = FALSE
    /\ reads = 0
    /\ trace = <<>>
    /\ closed = FALSE
    /\ running = TRUE
    /\ mailbox = EmptyMailbox
    /\ taken = <<>>
    /\ sent = <<>>
    /\ StoreIdle
    /\ ServerIdle

\* the proposals of FrameA and FrameB
PropA == [compressed_size |-> 6, uncompressed_size |-> 100]
PropB == [compressed_size |-> 6, uncompressed_size |-> 7]

\* lines joined by CRLF
RECURSIVE JoinCRLF(_)
JoinCRLF(lines) ==
    IF lines = <<>> THEN <<>>
    ELSE IF Len(lines) = 1 THEN lines[1]
    ELSE lines[1] \o CRLF \o JoinCRLF(Tail(lines))

\* each attachment followed by CRLF
RECURSIVE JoinAttachments(_)
JoinAttachments(atts) ==
    IF atts = <<>> THEN <<>> ELSE Head(atts).data \o CRLF \o JoinAttachments(Tail(atts))

\* the payload layout: header lines, blank line, body, CRLF, and each
\* attachment followed by CRLF
ComposePayload(lines, body, atts) ==
    JoinCRLF(lines) \o CRLF \o CRLF \o body \o CRLF \o JoinAttachments(atts)

\* "Body: 2" over the body "hi"
SamplePayload == ComposePayload(<<hdrBody \o <<50>>>>, <<104, 105>>, <<>>)

\* what the decompressor leaves behind: nothing (it could not be run), an
\* empty output file, or a payload
Decompressions == {None, <<>>, SamplePayload}

\* parse has read the subject field of the frame (line 92)
SubjectRead(r) == r.ok \/ (r.err # "SOH" /\ r.index > 2)

\* B2Message.__init__ over a composed frame and the sizes of a proposal; a
\* frame that matches its proposal may be followed by FrameA and FrameB
InitB2 ==
    /\ SessionIdle
    /\ PartsIdle
    /\ \E B \in SeqsUpTo(DataBytes, MaxData), delta \in TrailerDeltas :
         \E cut \in 0..Len(B), cs \in {Len(B), Len(B) + 1},
            ds \in {FromBytesLE(Slice(B, 2, 6)), FromBytesLE(Slice(B, 2, 6)) + 1} :
           LET trailer == (256 - (SumBytes(B) % 256) + delta) % 256
               matches == delta = 0 /\ cs = Len(B) /\ ds = FromBytesLE(Slice(B, 2, 6))
           IN  \E rest \in (IF matches THEN {<<>>, FrameA \o FrameB} ELSE {<<>>}) :
                 /\ frame_src = [B |-> B, cut |-> cut, trailer |-> trailer, rest |-> rest]
                 /\ b2_raw_data = Compose(B, cut, trailer) \o rest
                 /\ b2_compressed_size = cs
                 /\ b2_decompressed_size = ds
                 /\ b2_props = IF rest = <<>> THEN <<>> ELSE <<PropA, PropB>>
    /\ b2_result = NoResult
    /\ b2_cursor = 0
    /\ b2_later = <<>>
    /\ b2_pc = "new"

\* B2Message.parse: the frame, the size checks, then the decompressor and
\* _extract_message_parts inside the try
Parse ==
    /\ b2_pc = "new"
    /\ LET r == parse(b2_raw_data, b2_compressed_size, b2_decompressed_size)
           m == [b2_parts EXCEPT !.subject =
                    IF SubjectRead(r) THEN Slice(b2_raw_data, 2, IndexOf(b2_raw_data, NUL, 2))
                    ELSE @]
       IN  /\ b2_result' = r
           /\ b2_cursor' = IF r.ok THEN r.index ELSE b2_cursor
           /\ \E d \in (IF r.ok THEN Decompressions ELSE {None}) :
                /\ b2_decompressed_data' = d
                /\ b2_parts' = extract_message_parts(m, d)
    /\ b2_pc' = "parsed"
    /\ UNCHANGED <<variant, state, next_state, client_callsign, client_password, author,
                   version, feature_list, message_queue, inbuf, peer_closed, reads,
                   trace, closed, running, mailbox, taken, sent, storevars, servervars, b2_raw_data,
                   b2_compressed_size, b2_decompressed_size, frame_src, b2_props,
                   b2_later, payload_src>>

\* a B2Message over the blob sliced at the index returned so far, for the
\* next proposal, and its parse
ParseNext ==
    /\ b2_pc = "parsed" /\ b2_result.ok /\ b2_props # <<>>
    /\ \A i \in 1..Len(b2_later) : b2_later[i].ok
    /\ LET r == parse(Slice(b2_raw_data, b2_cursor, Len(b2_raw_data)),
                      Head(b2_props).compressed_size, Head(b2_props).uncompressed_size)
       IN  /\ b2_later' = Append(b2_later, r)
           /\ b2_cursor' = IF r.ok THEN b2_cursor + r.index ELSE b2_cursor
    /\ b2_props' = Tail(b2_props)
    /\ UNCHANGED <<variant, state, next_state, client_callsign, client_password, author,
                   version, feature_list, message_queue, inbuf, peer_closed, reads,
                   trace, closed, running, mailbox, taken, sent, storevars, servervars, b2_raw_data,
                   b2_compressed_size, b2_decompressed_size, b2_result, b2_pc, frame_src,
                   b2_decompressed_data, b2_parts, payload_src>>

NextB2 == Parse \/ ParseNext

SpecB2 == InitB2 /\ [][NextB2]_vars

(***************************************************************************)
(* The extraction on its own: a payload is composed from header lines, a   *)
(* body and attachments, the last bytes possibly missing, and              *)
(* _extract_message_parts is called on it.                                 *)
(***************************************************************************)
\* longest body of a composed payload
MaxBody == 3

\* body byte values: CR and LF, a letter, a byte outside ASCII
BodyBytes == {CR, LF, 97, 200}

txtFromLine == <<70,114,111,109,58,32,87,54,88,89,90>>            \* "From: W6XYZ"
txtFileF == <<102,46,116,120,116>>                                \* "f.txt"
txtFileG == <<103,46,98,105,110>>                                 \* "g.bin"

\* the attachments of a payload: none, one, or two of which the second
\* holds a CRLF
AttachmentSets ==
    {<<>>,
     <<[filename |-> txtFileF, data |-> <<1, 2>>]>>,
     <<[filename |-> txtFileF, data |-> <<1, 2>>], [filename |-> txtFileG, data |-> <<13, 10, 0>>]>>}

\* "File: 99 H": an attachment declared with more bytes than any payload has
txtFileLong == hdrFile \o <<57, 57, 32, 72>>

\* "Date: 2025/08/08 20:40"
txtDateLine == hdrDate \o <<50,48,50,53,47,48,56,47,48,56,32,50,48,58,52,48>>

ExtraHeaders == {<<>>, <<txtFromLine>>, <<txtFileLong>>, <<txtDateLine>>}

\* how many bytes the payload lacks at its end
Chops == 0..2

\* str(n) for n >= 0
RECURSIVE ToDecimal(_)
ToDecimal(n) == IF n < 10 THEN <<48 + n>> ELSE ToDecimal(n \div 10) \o <<48 + (n % 10)>>

\* "File: <size> <filename>" for each attachment
FileLines(atts) ==
    [i \in 1..Len(atts) |->
        hdrFile \o ToDecimal(Len(atts[i].data)) \o <<32>> \o atts[i].filename]

\* header lines whose Body: and File: values match the body and the attachments
HeaderLines(extra, body, atts) ==
    extra \o <<hdrBody \o ToDecimal(Len(body))>> \o FileLines(atts)

\* B2Message.decompressed_data holds a composed payload
InitParts ==
    /\ SessionIdle
    /\ FrameIdle
    /\ \E body \in SeqsUpTo(BodyBytes, MaxBody), atts \in AttachmentSets,
          extra \in ExtraHeaders, chop \in Chops :
         LET lines == HeaderLines(extra, body, atts)
             whole == ComposePayload(lines, body, atts)
         IN  /\ payload_src = [lines |-> lines, body |-> body, atts |-> atts, chop |-> chop]
             /\ b2_decompressed_data = SubSeq(whole, 1, Len(whole) - chop)
    /\ b2_parts = NoParts
    /\ b2_pc = "decompressed"

\* B2Message._extract_message_parts
Extract ==
    /\ b2_pc = "decompressed"
    /\ b2_parts' = extract_message_parts(b2_parts, b2_decompressed_data)
    /\ b2_pc' = "extracted"
    /\ UNCHANGED <<variant, state, next_state, client_callsign, client_password, author,
                   version, feature_list, message_queue, inbuf, peer_closed, reads,
                   trace, closed, running, mailbox, taken, sent, storevars, servervars, b2_raw_data,
                   b2_compressed_size, b2_decompressed_size, b2_result, frame_src,
                   b2_cursor, b2_props, b2_later, b2_decompressed_data, payload_src>>

NextParts == Extract

SpecParts == InitParts /\ [][NextParts]_vars

(***************************************************************************)
(* The store: WinlinkMailMessage objects are constructed, given a parsed   *)
(* payload, and saved to the mailbox folder while the clock advances.      *)
(***************************************************************************)
\* the last second of the clock
MaxClock == 1

sfxHeaders == <<45,104,101,97,100,101,114,115,46,116,120,116>>    \* "-headers.txt"
sfxBody == <<45,98,111,100,121,46,116,120,116>>                   \* "-body.txt"

\* f"{self.filename}<suffix>", self.filename being
\* f"{MAILBOX_FOLDER_NAME}/{julian_date}-{self.message_id}"
ArtifactName(m, suffix) ==
    [julian_date |-> m.time_created, message_id |-> m.message_id, suffix |-> suffix]

\* open(name, 'w' or 'wb') and f.write(content): the file is created, or cut
\* to nothing if it exists, and then holds content
open_write(box, name, content) ==
    [f \in DOMAIN box \cup {name} |-> IF f = name THEN content ELSE box[f]]

\* message ids proposed
StoreMids == {<<65>>, <<66>>}

\* two attachments
TwoAttachments ==
    <<[filename |-> txtFileF, data |-> <<1, 2>>], [filename |-> txtFileG, data |-> <<3>>]>>

\* "To: B" and no Body: line over the text "yo"
NoBodyHeader == ComposePayload(<<hdrTo \o <<66>>>>, <<121, 111>>, <<>>)

\* decompressed payloads: a body and no attachment; text without a Body:
\* line; another body and two attachments; the latter with a first File: line
\* that declares 9 bytes
StorePayloads ==
    {SamplePayload, NoBodyHeader,
     ComposePayload(HeaderLines(<<>>, <<121, 111>>, TwoAttachments), <<121, 111>>, TwoAttachments),
     ComposePayload(<<hdrBody \o <<50>>, hdrFile \o <<57, 32>> \o txtFileF,
                      hdrFile \o <<49, 32>> \o txtFileG>>,
                    <<121, 111>>, TwoAttachments)}

InitStore ==
    /\ SessionIdle
    /\ B2Idle

Tick ==
    /\ now < MaxClock
    /\ now' = now + 1
    /\ UNCHANGED <<messages, mailbox, sessionvars>>

\* WinlinkMailMessage.__init__, capture and parse
NewMessage(w) ==
    /\ messages[w].pc = "none"
    /\ \E mid \in StoreMids, d \in StorePayloads :
         messages' = [messages EXCEPT ![w] =
                         [NoMessage EXCEPT !.pc = "headers",
                                           !.time_created = now,
                                           !.message_id = mid,
                                           !.b2 = extract_message_parts(NoParts, d)]]
    /\ UNCHANGED <<now, mailbox, sessionvars>>

\* the outcome of one open-and-write: the file written, or OSError
Writes == {TRUE, FALSE}

\* _save_headers_to_file
SaveHeaders(w) ==
    LET m == messages[w]
    IN  /\ m.pc = "headers"
        /\ \E ok \in Writes :
             /\ mailbox' = IF ok THEN open_write(mailbox, ArtifactName(m, sfxHeaders), m.b2.headers)
                           ELSE mailbox
             /\ messages' = [messages EXCEPT ![w].pc = "body",
                                ![w].attempted = Append(@, [suffix |-> sfxHeaders, ok |-> ok])]
        /\ UNCHANGED <<now, sessionvars>>

\* _save_body_to_file
SaveBody(w) ==
    LET m == messages[w]
    IN  /\ m.pc = "body"
        /\ \E ok \in Writes :
             /\ mailbox' = IF ok THEN open_write(mailbox, ArtifactName(m, sfxBody), m.b2.body)
                           ELSE mailbox
             /\ messages' = [messages EXCEPT ![w].pc = "attachments", ![w].attachment = 1,
                                ![w].attempted = Append(@, [suffix |-> sfxBody, ok |-> ok])]
        /\ UNCHANGED <<now, sessionvars>>

\* one pass of the loop of _save_attachments_to_files, or its end.  An
\* attachment whose data is None has its file opened and f.write(None) raises
\* TypeError; any exception leaves the loop
SaveAttachment(w) ==
    LET m == messages[w]
        atts == m.b2.attachments
    IN  /\ m.pc = "attachments"
        /\ IF m.attachment > Len(atts)
           THEN /\ messages' = [messages EXCEPT ![w].pc = "saved"]
                /\ UNCHANGED mailbox
           ELSE LET attachment == atts[m.attachment]
                    name == ArtifactName(m, <<45>> \o attachment.filename)
                IN  \E opened \in Writes :
                       LET ok == opened /\ attachment.data # None
                       IN  /\ mailbox' = IF ~opened THEN mailbox
                                         ELSE open_write(mailbox, name,
                                                  IF ok THEN attachment.data ELSE <<>>)
                           /\ messages' = [messages EXCEPT
                                  ![w].pc = IF ok THEN "attachments" ELSE "saved",
                                  ![w].attachment = @ + 1,
                                  ![w].attempted = Append(@, [suffix |-> name.suffix, ok |-> ok])]
        /\ UNCHANGED <<now, sessionvars>>

NextStore ==
    \/ Tick
    \/ \E w \in Messages : NewMessage(w)
    \/ \E w \in Messages : SaveHeaders(w)
    \/ \E w \in Messages : SaveBody(w)
    \/ \E w \in Messages : SaveAttachment(w)

SpecStore == InitStore /\ [][NextStore]_vars

(***************************************************************************)
(* Frames that are not well formed, under both parsers: B2Message.parse    *)
(* (python/classes/B2Message.py) and B2Message._parse_b2_message           *)
(* (src/classes/B2Message.py), which takes no sizes, ends its block loop   *)
(* at the end of the buffer, and decodes the data with base64 and zlib.    *)
(***************************************************************************)
\* header with subject "S" and offset "0"
FrameHeader == <<SOH, 4, 83, NUL, 48, NUL>>

\* b'eJxL5OJKAgACHADY': base64 of the zlib stream of "a\n\nb"
ZImage == <<101, 74, 120, 76, 53, 79, 74, 75, 65, 103, 65, 67, 72, 65, 68, 89>>

\* "a\n\nb"
ZText == <<97, LF, LF, 98>>

\* the base64 alphabet: A-Z, a-z, 0-9, '+', '/'
IsBase64(c) == c \in (65..90) \cup (97..122) \cup (48..57) \cup {43, 47}

\* base64.b64decode(data) for data without '=': the bytes outside the
\* alphabet are discarded, and what is left must come in groups of four.  The
\* decoded bytes are represented by their base64 text.
b64decode(data) ==
    LET kept == SelectSeq(data, IsBase64)
    IN  IF Len(kept) % 4 = 0 THEN [ok |-> TRUE, data |-> kept]
        ELSE [ok |-> FALSE, data |-> <<>>]

\* zlib.decompress over the streams the frames can carry: the stream of
\* ZImage inflates to ZText, every shorter or other one is an error
zlib_decompress(decoded) ==
    IF decoded = ZImage THEN [ok |-> TRUE, data |-> ZText]
    ELSE [ok |-> FALSE, data |-> <<>>]

\* the loop "while raw_index < raw_data_len" of _parse_b2_message: STX blocks
\* up to EOT and the checksum, or up to the end of the buffer
RECURSIVE parse_b2_blocks(_, _, _)
parse_b2_blocks(raw, raw_index, compressed_data) ==
    IF ~(raw_index < Len(raw))
    THEN [ok |-> TRUE, err |-> "", index |-> raw_index, compressed_data |-> compressed_data]
    ELSE IF At(raw, raw_index) = STX
    THEN IF ~InRange(raw, raw_index + 1)
         THEN Failed("IndexError", raw_index + 1, compressed_data)
         ELSE LET block_length == At(raw, raw_index + 1)
                  first == raw_index + 2
                  last_raw_index == first + block_length
              IN  IF last_raw_index > Len(raw)
                  THEN Failed("TooShort", first, compressed_data)
                  ELSE parse_b2_blocks(raw, last_raw_index,
                                       compressed_data \o Slice(raw, first, last_raw_index))
    ELSE IF At(raw, raw_index) = EOT
    THEN IF ~InRange(raw, raw_index + 1)
         THEN Failed("IndexError", raw_index + 1, compressed_data)
         ELSE IF At(raw, raw_index + 1) # calculate_checksum(compressed_data)
              THEN Failed("Checksum", raw_index + 1, compressed_data)
              ELSE [ok |-> TRUE, err |-> "", index |-> raw_index + 1,
                    compressed_data |-> compressed_data]
    ELSE Failed("Malformed", raw_index, compressed_data)

\* the decoding that follows the loop: base64, zlib, ascii, and the split of
\* the text at the first blank line into headers and the rest
decode_b2_message(r) ==
    LET decoded == b64decode(r.compressed_data)
        decompressed == zlib_decompress(decoded.data)
        halves == SplitOnce(decompressed.data, <<LF, LF>>)
    IN  IF ~r.ok THEN [r |-> r, text |-> None, halves |-> <<>>]
        ELSE IF ~decoded.ok
        THEN [r |-> Failed("base64", r.index, r.compressed_data), text |-> None, halves |-> <<>>]
        ELSE IF ~decompressed.ok
        THEN [r |-> Failed("zlib", r.index, r.compressed_data), text |-> None, halves |-> <<>>]
        ELSE IF ~Decodable(decompressed.data)
        THEN [r |-> Failed("ascii", r.index, r.compressed_data), text |-> None, halves |-> <<>>]
        ELSE IF Len(halves) # 2
        THEN [r |-> Failed("unpack", r.index, r.compressed_data), text |-> None, halves |-> <<>>]
        ELSE [r |-> r, text |-> decompressed.data, halves |-> halves]

\* B2Message._parse_b2_message: the header, the lead bytes of a non-zero
\* offset, the block loop and the decoding; ok when the constructor returns
parse_b2_message(raw) ==
    LET end_subject == IndexOf(raw, NUL, 2)
        end_offset == IndexOf(raw, NUL, end_subject + 1)
        offset == PyInt(Slice(raw, end_subject + 1, end_offset))
        raw_index == end_offset + 1
        none(err, i) == [r |-> Failed(err, i, <<>>), text |-> None, halves |-> <<>>]
    IN  IF ~InRange(raw, 0) THEN none("IndexError", 0)
        ELSE IF At(raw, 0) # SOH THEN none("SOH", 0)
        ELSE IF ~InRange(raw, 1) THEN none("IndexError", 1)
        ELSE IF end_subject < 0 THEN none("NoNUL", 2)
        ELSE IF ~Decodable(Slice(raw, 2, end_subject)) THEN none("ascii", 2)
        ELSE IF end_offset < 0 THEN none("NoNUL", end_subject + 1)
        ELSE IF ~Decodable(Slice(raw, end_subject + 1, end_offset))
        THEN none("ascii", end_subject + 1)
        ELSE IF ~offset.ok THEN none("offset", end_subject + 1)
        ELSE IF offset.val # 0
        THEN IF ~InRange(raw, raw_index + 1) THEN none("IndexError", raw_index)
             ELSE IF At(raw, raw_index) # STX \/ At(raw, raw_index + 1) # 6
             THEN none("lead-bytes", raw_index)
             ELSE decode_b2_message(parse_b2_blocks(raw, raw_index + 8,
                                                    Slice(raw, raw_index + 2, raw_index + 8)))
        ELSE decode_b2_message(parse_b2_blocks(raw, raw_index, <<>>))

Zeros(n) == [i \in 1..n |-> 0]

\* block-length bytes around the limit of 250 the protocol sets
BlockLengths == {0, 1, 250, 251, 255}

\* a frame of one block of n zero bytes
LongBlock(n) == FrameHeader \o <<STX, n>> \o Zeros(n) \o <<EOT, 0>>

\* ZImage in one block, and in two
ZFrame == FrameHeader \o Block(ZImage) \o <<EOT, calculate_checksum(ZImage)>>
ZFrame2 ==
    FrameHeader \o Block(SubSeq(ZImage, 1, 8)) \o Block(SubSeq(ZImage, 9, 16))
        \o <<EOT, calculate_checksum(ZImage)>>

\* the whole frames
WholeFrames == {ZFrame, ZFrame2} \cup {LongBlock(n) : n \in BlockLengths}

\* a buffer that ends early: every proper prefix of a frame
Truncated(f) == {SubSeq(f, 1, n) : n \in 0..(Len(f) - 1)}

\* a frame whose first byte is not SOH
WrongStart(f) == {[f EXCEPT ![1] = b] : b \in {NUL, STX, EOT}}

\* a frame whose byte at a block boundary is neither STX nor EOT: the STX of
\* the first block, or the EOT
WrongBoundary(f) ==
    {[f EXCEPT ![i] = b] : i \in {Len(FrameHeader) + 1, Len(f) - 1}, b \in {NUL, SOH, 3, 255}}

\* a frame whose first block declares more bytes than it has: up to the
\* checksum, up to the end of the buffer, and past it
WrongLength(f) ==
    LET at == Len(FrameHeader) + 2
    IN  {[f EXCEPT ![at] = n] : n \in {Len(f) - at - 1, Len(f) - at, Len(f) - at + 1, 255}}

\* the structurally malformed frames
MalformedFrames ==
    UNION {Truncated(f) \cup WrongStart(f) \cup WrongBoundary(f) \cup WrongLength(f)
             : f \in {ZFrame, ZFrame2}}

OddFrames == WholeFrames \cup MalformedFrames

\* the number of data bytes a whole frame carries; 0 for the other buffers
DataLen(f) ==
    IF f \in {ZFrame, ZFrame2} THEN Len(ZImage)
    ELSE IF \E n \in BlockLengths : f = LongBlock(n)
    THEN CHOOSE n \in BlockLengths : f = LongBlock(n)
    ELSE 0

\* B2Message.__init__ over a buffer, with the sizes of the proposal that match
\* the data of ZImage or of the long block
InitFrames ==
    /\ SessionIdle
    /\ PartsIdle
    /\ \E f \in OddFrames : \E cs \in {Len(ZImage), DataLen(f)} :
         /\ b2_raw_data = f
         /\ b2_compressed_size = cs
         /\ b2_decompressed_size =
                IF cs = Len(ZImage) THEN FromBytesLE(Slice(ZImage, 2, 6)) ELSE 0
    /\ frame_src = NoFrame
    /\ b2_props = <<>>
    /\ b2_result = NoResult
    /\ b2_cursor = 0
    /\ b2_later = <<>>
    /\ b2_pc = "new"

\* B2Message(raw_data) of src/classes: the constructor runs _parse_b2_message
ParseSrc ==
    /\ b2_pc = "new"
    /\ LET p == parse_b2_message(b2_raw_data)
       IN  /\ b2_result' = p.r
           /\ b2_decompressed_data' = p.text
           /\ b2_parts' =
                LET m == [b2_parts EXCEPT !.subject =
                             IF SubjectRead(p.r)
                             THEN Slice(b2_raw_data, 2, IndexOf(b2_raw_data, NUL, 2))
                             ELSE @]
                IN  IF p.r.ok
                    THEN [m EXCEPT !.headers = p.halves[1], !.body = p.halves[2]]
                    ELSE m
    /\ b2_pc' = "parsed_src"
    /\ UNCHANGED <<variant, state, next_state, client_callsign, client_password, author,
                   version, feature_list, message_queue, inbuf, peer_closed, reads,
                   trace, closed, running, mailbox, taken, sent, storevars, servervars,
                   b2_raw_data, b2_compressed_size, b2_decompressed_size, frame_src,
                   b2_props, b2_cursor, b2_later, payload_src>>

NextFrames ==
    \/ Parse
    \/ ParseSrc

SpecFrames == InitFrames /\ [][NextFrames]_vars

(***************************************************************************)
(* The command dispatcher on its own: a session that has logged in and     *)
(* handled some command lines finds one more line on its socket, sent by a *)
(* client that then shut its side down, and _handle_client_request runs.   *)
(***************************************************************************)
txtFCShort == <<70,67,32,69,77,32,67,32,57>>                        \* "FC EM C 9"
txtFCNoFlag == <<70,67,32,69,77,32,67,32,57,32,54>>                 \* "FC EM C 9 6"
txtFCBadInt == <<70,67,32,69,77,32,67,32,120,32,54,32,48>>          \* "FC EM C x 6 0"
txtPQ == <<59,80,81,58,32,49>>                                      \* ";PQ: 1"
txtPM == <<59,80,77,58,32,120>>                                     \* ";PM: x"
txtSID2 == <<91,82,77,83,45,66,93>>                                 \* "[RMS-B]"
txtSID1 == <<91,82,77,83,93>>                                       \* "[RMS]"
txtSID4 == <<91,82,77,83,45,49,46,48,45,66,45,88,93>>               \* "[RMS-1.0-B-X]"
txtUnknown == <<88,89,90>>                                          \* "XYZ"

\* the line _handle_client_request reads
RequestLines ==
    {txtFCA, txtFCB, txtFCShort, txtFCNoFlag, txtFCBadInt,
     txtFW, txtPQ, txtPM, txtComment,
     txtSID, txtSID2, txtSID1, txtSID4,
     txtUnknown, txtEXIT, txtFGt, txtFF}

\* the command lines handled before it
Histories == {<<>>, <<txtSID>>, <<txtFCA>>, <<txtSID, txtFCA>>, <<txtFCA, txtFCB>>}

\* the proposal an accepted FC line enqueues
Proposal(line) ==
    LET parts == Split(line)
    IN  [message_type |-> parts[2], message_id |-> parts[3],
         uncompressed_size |-> PyInt(parts[4]).val, compressed_size |-> PyInt(parts[5]).val]

\* the trace of a login with callsign K6ABC and password "right"
LoginTrace ==
    <<Event("send", PromptCallsign, "sent"), Event("readline", Line(txtK6ABC), "str"),
      Event("send", PromptPassword, "sent"), Event("readline", Line(txtRight), "str"),
      Event("send", BannerSID, "sent"), Event("send", BannerCMS, "sent")>>

RECURSIVE LinesOf(_)
LinesOf(h) == IF h = <<>> THEN <<>> ELSE Line(Head(h)) \o LinesOf(Tail(h))

RECURSIVE QueueOf(_)
QueueOf(h) ==
    IF h = <<>> THEN <<>>
    ELSE (IF StartsWith(Head(h), pfxFC) THEN <<Proposal(Head(h))>> ELSE <<>>) \o QueueOf(Tail(h))

InitRequest ==
    /\ variant \in {"python", "cms"}
    /\ state = CLIENT_REQUEST
    /\ next_state = CLIENT_REQUEST
    /\ client_callsign = txtK6ABC
    /\ client_password = txtRight
    /\ \E h \in Histories, line \in RequestLines :
         LET sid == \E i \in 1..Len(h) : h[i] = txtSID
         IN  /\ author = IF sid THEN <<82, 77, 83>> ELSE None
             /\ version = IF sid THEN <<49, 46, 48>> ELSE None
             /\ feature_list = IF sid THEN <<66>> ELSE None
             /\ message_queue = QueueOf(h)
             /\ reads = 2 + Len(h)
             /\ trace = LoginTrace \o [i \in 1..Len(h) |-> Event("readline", Line(h[i]), "str")]
             /\ inbuf = Line(line)
             /\ sent = Line(txtK6ABC) \o Line(txtRight) \o LinesOf(h) \o Line(line)
    /\ peer_closed = TRUE
    /\ closed = FALSE
    /\ running = TRUE
    /\ mailbox = EmptyMailbox
    /\ taken = <<>>
    /\ StoreIdle
    /\ ServerIdle
    /\ B2Idle

\* the command line at hand is read and handled
Request ==
    /\ inbuf # <<>>
    /\ HandleClientRequest

NextRequest == Request

SpecRequest == InitRequest /\ [][NextRequest]_vars

(***************************************************************************)
(* The server: start_server accepts connections and starts a thread on     *)
(* handle_connection for each; the threads take their steps in any order.  *)
(***************************************************************************)
\* wait_for_input calls explored per connection of the server
MaxServerReads == 3

\* what a client sends, from the login on
ClientScripts ==
    {Line(txtW6XYZ) \o Line(txtRight) \o Line(txtFCA) \o Line(txtFGt) \o FrameA,
     Line(txtK6ABC) \o Line(txtWrongpw) \o Line(txtFCB) \o Line(txtFF),
     Line(txtNotUTF8)}

IsPrefix(p, q) == Len(p) <= Len(q) /\ SubSeq(q, 1, Len(p)) = p

\* the client of the connection in focus keeps to a script (it may stop
\* sending, or close, at any point of it)
OnScript == \E script \in ClientScripts : IsPrefix(sent', script)

\* the fields of the connection in focus
Snapshot ==
    [tag |-> "session", state |-> state, next_state |-> next_state,
     client_callsign |-> client_callsign, client_password |-> client_password,
     author |-> author, version |-> version, feature_list |-> feature_list,
     message_queue |-> message_queue, inbuf |-> inbuf, peer_closed |-> peer_closed,
     reads |-> reads, trace |-> trace, closed |-> closed, running |-> running,
     taken |-> taken, sent |-> sent]

InitServer ==
    /\ SessionIdle
    /\ B2Idle

\* server_socket.accept(), WinlinkConnection(connection, address, ...) and
\* threading.Thread(target=handler.handle_connection).start()
Accept ==
    /\ acceptor = "listening"
    /\ \E i \in Sessions :
         /\ parked[i].tag = "none"
         /\ \A j \in Sessions : j < i => parked[j].tag # "none"
         /\ parked' = [parked EXCEPT ![i] = Fresh]
    /\ UNCHANGED <<variant, state, next_state, client_callsign, client_password, author,
                   version, feature_list, message_queue, inbuf, peer_closed, reads,
                   trace, closed, running, mailbox, taken, sent, storevars, acceptor,
                   focus, b2vars>>

\* the scheduler gives the processor to the thread of connection i
Switch(i) ==
    /\ parked[i].tag = "session"
    /\ parked' = IF focus = 0 THEN [parked EXCEPT ![i] = InFocus]
                 ELSE [parked EXCEPT ![i] = InFocus, ![focus] = Snapshot]
    /\ focus' = i
    /\ state' = parked[i].state
    /\ next_state' = parked[i].next_state
    /\ client_callsign' = parked[i].client_callsign
    /\ client_password' = parked[i].client_password
    /\ author' = parked[i].author
    /\ version' = parked[i].version
    /\ feature_list' = parked[i].feature_list
    /\ message_queue' = parked[i].message_queue
    /\ inbuf' = parked[i].inbuf
    /\ peer_closed' = parked[i].peer_closed
    /\ reads' = parked[i].reads
    /\ trace' = parked[i].trace
    /\ closed' = parked[i].closed
    /\ running' = parked[i].running
    /\ taken' = parked[i].taken
    /\ sent' = parked[i].sent
    /\ UNCHANGED <<variant, mailbox, storevars, acceptor, b2vars>>

\* one pass of the loop of handle_connection in the thread in focus
Handle ==
    /\ focus # 0
    /\ (reads < MaxServerReads \/ state \notin {CALLSIGN_ENTRY, PASSWORD_VALIDATION, CLIENT_REQUEST})
    /\ Next
    /\ OnScript

NextServer ==
    \/ Accept
    \/ \E i \in Sessions : Switch(i)
    \/ Handle

SpecServer == InitServer /\ [][NextServer]_vars

(***************************************************************************)
(* Vocabulary of the properties.                                           *)
(***************************************************************************)
\* the trace entries a step appends
NewEvents == SubSeq(trace', Len(trace) + 1, Len(trace'))

IsSend(e, data) == e.op = "send" /\ e.data = data

\* a sent line that begins "FS"
IsFS(e) == e.op = "send" /\ StartsWith(e.data, <<70, 83>>)

IsRead(e) == e.op \in {"readline", "readdata"}

\* the entry is the read of a command line that begins with the prefix p
IsRequest(e, p) == e.op = "readline" /\ e.res = "str" /\ StartsWith(RStripCR(e.data), p)

\* the step is a pass of _handle_client_request that dispatches an "F>" line
HandlesFGt ==
    /\ state = CLIENT_REQUEST /\ reads' = reads + 1
    /\ NewEvents # <<>> /\ IsRequest(NewEvents[1], pfxFGt)

\* the user directory of the login scenario: users.json = {"W6XYZ": "right"}
UserDirectory == {<<txtW6XYZ, txtRight>>}

Authenticated(callsign, password) == <<callsign, password>> \in UserDirectory

NAK_CR == <<59,78,65,75,13>>                                       \* ";NAK\r"
BannerPQ == <<59,80,81,58,32,48,48,48,48,48,48,48,49,13>>          \* ";PQ: 00000001\r"
pfxNAK == <<59,78,65,75,58,32>>                                    \* ";NAK: "
NAKChecksum == <<59,78,65,75,58,32,67,104,101,99,107,115,117,109,13>>                 \* ";NAK: Checksum\r"
NAKSizeMismatch == <<59,78,65,75,58,32,83,105,122,101,77,105,115,109,97,116,99,104,13>>   \* ";NAK: SizeMismatch\r"

\* "FS " followed by n "Y" and a CR
FSLine(n) == <<70, 83, 32>> \o [i \in 1..n |-> 89] \o <<CR>>

\* the headers artifact of a message id
HeadersFile(f, mid) == f.message_id = mid /\ f.suffix = sfxHeaders

IsReadData(e) == e.op = "readdata"

\* the blob of frames parses proposal by proposal, each parse starting where
\* the previous one ended
RECURSIVE BatchParses(_, _)
BatchParses(q, blob) ==
    IF q = <<>> THEN TRUE
    ELSE LET r == parse(blob, q[1].compressed_size, q[1].uncompressed_size)
         IN  r.ok /\ BatchParses(Tail(q), SubSeq(blob, r.index + 1, Len(blob)))

RECURSIVE Concat(_)
Concat(ss) == IF ss = <<>> THEN <<>> ELSE Head(ss) \o Concat(Tail(ss))

\* the payload bytes a step reads
NewPayload ==
    Concat([i \in 1..Len(NewEvents) |->
               IF IsReadData(NewEvents[i]) THEN NewEvents[i].data ELSE <<>>])

(***************************************************************************)
(* Properties of the session.                                              *)
(***************************************************************************)
\* C1: the login banner is sent and the command state entered only if the
\* presented callsign is in the user directory with the presented password;
\* any other pair is answered ";NAK\r", the session closes and no mailbox
\* file exists.
C1_LoginOnlyWithStoredPassword ==
    /\ ((\E i \in 1..Len(trace) : IsSend(trace[i], BannerSID)) \/ state = CLIENT_REQUEST)
          => Authenticated(client_callsign, client_password)
    /\ (client_password # None /\ ~Authenticated(client_callsign, client_password))
          => /\ trace # <<>>
             /\ \E i \in 1..Len(trace) : IsSend(trace[i], NAK_CR)
             /\ state = CLOSE_CONNECTION
             /\ DOMAIN mailbox = {}

\* C2: an "FS" line is sent only while an "F>" line is handled with at least
\* one proposal in the queue; an "F>" handled with an empty queue sends none.
C2_FSOnlyForQueuedProposal ==
    [][\A i \in 1..Len(NewEvents) :
          IsFS(NewEvents[i]) => (HandlesFGt /\ message_queue # <<>>)]_vars

\* C2 witness: an "F>" line was read with nothing sent in answer, and an
\* "FS" line was sent later.
C2_Witness ==
    \E i \in 1..Len(trace) :
        /\ IsRequest(trace[i], pfxFGt)
        /\ i < Len(trace) /\ ~IsFS(trace[i + 1])
        /\ \E j \in (i + 1)..Len(trace) : IsFS(trace[j])

\* C3: "F>" with n >= 1 queued proposals is answered by exactly one line
\* "FS " + n "Y" + CR, sent before any payload byte of the batch is read.
C3_FSCarriesOneYPerProposal ==
    [][(HandlesFGt /\ message_queue # <<>>) =>
          LET fs == {i \in 1..Len(NewEvents) : IsFS(NewEvents[i])}
          IN  /\ Cardinality(fs) = 1
              /\ \A i \in fs :
                    /\ NewEvents[i].data = FSLine(Len(message_queue))
                    /\ \A j \in 1..(i - 1) : ~IsReadData(NewEvents[j])]_vars

\* C4: on "F>" the queued proposals are taken in the order of their FC lines
\* and the k-th payload is persisted under the mid of the k-th proposal.
C4_BatchTakenAndPersistedInOrder ==
    [][(HandlesFGt /\ message_queue # <<>>) =>
          /\ taken' = taken \o message_queue
          /\ \A k \in 1..Len(message_queue) :
                \E f \in DOMAIN mailbox' : HeadersFile(f, message_queue[k].message_id)]_vars

\* C5: "Callsign :\r" is sent before the callsign is read, "Password :\r"
\* before the password is read, and an "FS" line before any payload is read.
C5_PromptBeforeRead ==
    [][/\ (state = CALLSIGN_ENTRY /\ reads' = reads + 1)
             => /\ Len(NewEvents) >= 2
                /\ IsSend(NewEvents[1], PromptCallsign)
                /\ \A i \in 1..Len(NewEvents) : IsRead(NewEvents[i]) => i > 1
       /\ (state = PASSWORD_VALIDATION /\ reads' = reads + 1)
             => /\ Len(NewEvents) >= 2
                /\ IsSend(NewEvents[1], PromptPassword)
                /\ \A i \in 1..Len(NewEvents) : IsRead(NewEvents[i]) => i > 1
       /\ \A i \in 1..Len(NewEvents) :
             IsReadData(NewEvents[i]) => (i > 1 /\ IsFS(NewEvents[i - 1]))]_vars

\* C5 witness: callsign and password were read and a payload was read.
C5_Witness ==
    /\ client_callsign # None /\ client_password # None
    /\ \E i \in 1..Len(trace) : IsReadData(trace[i]) /\ trace[i].data # <<>>

\* C6: after a successful login exactly the three lines
\* "[AREDN_BRIDGE-1.0-B2F$]\r", ";PQ: 00000001\r", "CMS>\r" are sent, in this
\* order with nothing in between, before the first command line is read.
C6_BannerTriple ==
    state = CLIENT_REQUEST =>
        \E i \in 1..(Len(trace) - 2) :
            /\ IsSend(trace[i], BannerSID)
            /\ IsSend(trace[i + 1], BannerPQ)
            /\ IsSend(trace[i + 2], BannerCMS)
            /\ \A j \in 1..Len(trace) :
                  (j # i /\ j # i + 1 /\ j # i + 2) =>
                      ~(IsSend(trace[j], BannerSID) \/ IsSend(trace[j], BannerPQ)
                          \/ IsSend(trace[j], BannerCMS))

\* C7: an "FF" line is answered "FQ\r" and the session closes: nothing is
\* read after the "FQ" and no mailbox file exists.
C7_FFEndsSession ==
    \A i \in 1..Len(trace) :
        IsRequest(trace[i], pfxFF) =>
            /\ i < Len(trace) /\ IsSend(trace[i + 1], FQ_CR)
            /\ state = CLOSE_CONNECTION
            /\ \A j \in (i + 1)..Len(trace) : ~IsRead(trace[j])
            /\ DOMAIN mailbox = {}

\* C8: when the frame read for a proposal fails to parse (framing, checksum,
\* size), ";NAK: <reason>\r" is sent (";NAK: Checksum\r", ";NAK: SizeMismatch\r"),
\* the session closes and no artifact is written.
C8_FrameFailureIsNAKed ==
    \A i \in 1..Len(trace) :
        IsReadData(trace[i]) =>
            LET k == Cardinality({j \in 1..i : IsReadData(trace[j])})
                r == parse(trace[i].data, taken[k].compressed_size, taken[k].uncompressed_size)
            IN  (trace[i].data # <<>> /\ ~r.ok) =>
                    /\ i < Len(trace)
                    /\ trace[i + 1].op = "send"
                    /\ StartsWith(trace[i + 1].data, pfxNAK)
                    /\ (r.err = "Checksum" => trace[i + 1].data = NAKChecksum)
                    /\ (r.err \in {"CompressedSize", "DecompressedSize"}
                           => trace[i + 1].data = NAKSizeMismatch)
                    /\ state = CLOSE_CONNECTION
                    /\ \A f \in DOMAIN mailbox : ~HeadersFile(f, taken[k].message_id)

\* C9: when the frames of all queued proposals are received and valid, "FF\r"
\* is sent exactly once for the batch, the queue is empty and the session is
\* in the command state.
C9_BatchAcceptedOnce ==
    [][(HandlesFGt /\ message_queue # <<>> /\ BatchParses(message_queue, NewPayload)) =>
          /\ Cardinality({i \in 1..Len(NewEvents) : IsSend(NewEvents[i], FF_CR)}) = 1
          /\ message_queue' = <<>>
          /\ state' = CLIENT_REQUEST
          /\ running']_vars

(***************************************************************************)
(* Properties of the frame parser.                                         *)
(***************************************************************************)
\* C10: parse accepts a frame only if the byte after EOT equals
\* (-(sum of the reassembled bytes)) mod 256; _calculate_checksum yields that
\* value for every byte sequence (sum + checksum is 0 mod 256); any other
\* trailer byte, also one off by 1, makes parse fail.
C10_ChecksumGuardsAcceptance ==
    b2_pc = "parsed" =>
        LET B == frame_src.B
            want == (0 - SumBytes(B)) % 256
        IN  /\ calculate_checksum(B) \in 0..255
            /\ (SumBytes(B) + calculate_checksum(B)) % 256 = 0
            /\ b2_result.ok =>
                  /\ b2_result.compressed_data = B
                  /\ At(b2_raw_data, b2_result.index - 1) = want
                  /\ At(b2_raw_data, b2_result.index - 2) = EOT
            /\ frame_src.trailer # want => (~b2_result.ok /\ b2_result.err = "Checksum")

\* C10 witness: a frame whose data sum passes 255 was accepted.
C10_Witness ==
    /\ b2_pc = "parsed" /\ b2_result.ok
    /\ SumBytes(frame_src.B) > 256
    /\ Len(frame_src.B) = 3

\* C11: parse returns normally only if the number of reassembled bytes equals
\* the proposal's compressed_size and the little-endian value of compressed
\* bytes [2..6) equals the proposal's uncompressed_size; if either differs
\* parse fails and no message parts are extracted.
C11_SizesGuardAcceptance ==
    b2_pc = "parsed" =>
        LET B == frame_src.B
            differs == \/ Len(B) # b2_compressed_size
                       \/ FromBytesLE(Slice(B, 2, 6)) # b2_decompressed_size
        IN  /\ b2_result.ok =>
                  /\ Len(b2_result.compressed_data) = b2_compressed_size
                  /\ FromBytesLE(Slice(b2_result.compressed_data, 2, 6)) = b2_decompressed_size
            /\ differs =>
                  /\ ~b2_result.ok
                  /\ b2_decompressed_data = None
                  /\ b2_parts.headers = <<>> /\ b2_parts.body = <<>>
                  /\ b2_parts.attachments = <<>>

\* C11 witness: a frame with a right checksum was refused for its
\* decompressed length.
C11_Witness ==
    /\ b2_pc = "parsed" /\ ~b2_result.ok
    /\ b2_result.err = "DecompressedSize"
    /\ Len(frame_src.B) = 3 /\ frame_src.B[3] > 0

\* C12: for every byte string B and every segmentation of B into STX blocks
\* (blocks of length 0, consecutive blocks, data bytes equal to SOH, STX, EOT
\* or NUL), parsing the composed frame with offset 0 and the right checksum
\* reassembles compressed data equal to B.
C12_SegmentationRoundTrip ==
    (b2_pc = "parsed" /\ frame_src.trailer = (0 - SumBytes(frame_src.B)) % 256) =>
        /\ b2_result.compressed_data = frame_src.B
        /\ (/\ b2_compressed_size = Len(frame_src.B)
            /\ b2_decompressed_size = FromBytesLE(Slice(frame_src.B, 2, 6)))
              => b2_result.ok

\* C12 witness: a frame whose first block is empty and whose data hold an STX
\* and an EOT byte was accepted.
C12_Witness ==
    /\ b2_pc = "parsed" /\ b2_result.ok
    /\ frame_src.cut = 0 /\ Len(frame_src.B) = 3
    /\ \E i, j \in 1..3 : frame_src.B[i] = STX /\ frame_src.B[j] = EOT
    /\ b2_result.compressed_data = frame_src.B

\* C13: on success parse returns the index of the byte right after the
\* checksum byte of the first frame in the buffer; for a blob of three valid
\* frames, parsing the blob, then the blob sliced at the returned index, then
\* sliced again, parses the three frames in order and the returned indices
\* sum to the length of the blob.
C13_ReturnsIndexPastChecksum ==
    LET first == Len(Compose(frame_src.B, frame_src.cut, frame_src.trailer))
    IN  /\ (b2_pc = "parsed" /\ b2_result.ok) => b2_result.index = first
        /\ \A i \in 1..Len(b2_later) :
              /\ b2_later[i].ok
              /\ b2_later[i].compressed_data =
                    IF i = 1 THEN Slice(FrameA, 8, 14) ELSE Slice(FrameB, 8, 14)
        /\ Len(b2_later) = 1 => b2_cursor = first + Len(FrameA)
        /\ Len(b2_later) = 2 => b2_cursor = Len(b2_raw_data)

\* C13 witness: three frames of one blob were parsed and the cursor is at the
\* end of the blob.
C13_Witness ==
    /\ Len(b2_later) = 2 /\ b2_cursor = Len(b2_raw_data)
    /\ Len(frame_src.B) = 3

(***************************************************************************)
(* Properties of the extraction.                                           *)
(***************************************************************************)
\* C14: for every decoded message the extracted body has exactly body_length
\* bytes (the value of the Body: header), also when the body contains CRLF,
\* and every attachment that was extracted has exactly its declared size.
C14_BodyAndAttachmentLengths ==
    (b2_pc = "extracted" /\ ~b2_parts.raised) =>
        /\ payload_src.chop = 0 => Len(b2_parts.body) = b2_parts.body_length
        /\ \A i \in 1..Len(b2_parts.attachments) :
              b2_parts.attachments[i].data # None =>
                  Len(b2_parts.attachments[i].data) = b2_parts.attachments[i].size

\* C15: extracting the payload composed as headers, blank line, body, CRLF
\* and each attachment followed by CRLF yields the same headers, the same
\* body and the same attachments (names, bytes, order).
C15_ExtractInvertsCompose ==
    (b2_pc = "extracted" /\ payload_src.chop = 0) =>
        /\ ~b2_parts.raised
        /\ b2_parts.headers = JoinCRLF(payload_src.lines)
        /\ b2_parts.body = payload_src.body
        /\ b2_parts.attachments =
              [i \in 1..Len(payload_src.atts) |->
                  [filename |-> payload_src.atts[i].filename,
                   data |-> payload_src.atts[i].data,
                   size |-> Len(payload_src.atts[i].data)]]


\* the bytes the reads of a trace have taken from the stream, in order
RECURSIVE Consumed(_)
Consumed(tr) ==
    IF tr = <<>> THEN <<>>
    ELSE (IF IsRead(Head(tr)) THEN Head(tr).data ELSE <<>>) \o Consumed(Tail(tr))

\* a readline entry of the trace that returned a line: a CR was read
ReturnedLine(e) ==
    e.op = "readline" /\ e.res = "str" /\ FirstCR(e.data) > 0

\* C19: when a line read returns a line, the bytes it took from the stream end
\* at the first CR (no byte after that CR is taken: what the peer has sent is
\* what the reads have taken followed by what is still waiting), and the text
\* returned is the line without its CR
C19_LineReadStopsAtCR ==
    [][\A i \in 1..Len(NewEvents) :
          ReturnedLine(NewEvents[i]) =>
             LET e == NewEvents[i]
                 text == SubSeq(e.data, 1, Len(e.data) - 1)
             IN  /\ FirstCR(e.data) = Len(e.data)
                 /\ sent' = Consumed(trace') \o inbuf'
                 /\ (state = CALLSIGN_ENTRY /\ text # <<>>) => client_callsign' = text
                 /\ (state = PASSWORD_VALIDATION /\ text # <<>>) => client_password' = text]_vars

\* the line "EXIT" has been read and the frame sent right behind it is still waiting
C19_Witness ==
    /\ \E i \in 1..Len(trace) : trace[i] = Event("readline", Line(txtEXIT), "str")
    /\ sent # <<>>
    /\ sent = Consumed(trace) \o FrameA
    /\ inbuf = FrameA

\* C20: a read of the callsign or of the password that times out, returns an
\* empty line or finds the peer closed moves the session to CLOSING, and no
\* "Callsign :" prompt is sent from then on
C20_LoginReadFailureCloses ==
    [][(/\ state \in {CALLSIGN_ENTRY, PASSWORD_VALIDATION}
        /\ reads' = reads + 1
        /\ \E i \in 1..Len(NewEvents) : NewEvents[i].op = "readline"
        /\ \A i \in 1..Len(NewEvents) :
              NewEvents[i].op = "readline" =>
                 (NewEvents[i].res = "none" \/ RStripCR(NewEvents[i].data) = <<>>))
       => state' = CLOSE_CONNECTION]_vars


\* the messages whose save_message_to_files has opened a file in this step
Saving == {w \in Messages : Len(messages'[w].attempted) > Len(messages[w].attempted)}

\* the artifact written in this step by message w, if its open succeeded
Written(w) ==
    LET a == messages'[w].attempted
    IN  a[Len(a)].ok

\* C16: writing an artifact never replaces the content of an existing mailbox
\* file: every file keeps its content, and an artifact whose name is taken
\* (same mid in the same second) goes to a new name
C16_NeverOverwrites ==
    [][/\ \A f \in DOMAIN mailbox : f \in DOMAIN mailbox' /\ mailbox'[f] = mailbox[f]
       /\ \A w \in Saving : Written(w) => DOMAIN mailbox' # DOMAIN mailbox]_vars

\* the artifacts of a message: headers, body, and one file per attachment
Artifacts(m) ==
    <<sfxHeaders, sfxBody>>
        \o [i \in 1..Len(m.b2.attachments) |-> <<45>> \o m.b2.attachments[i].filename]

\* C17: a failure while writing one artifact does not keep the others from
\* being attempted: once a message is saved, each of its artifacts, the
\* attachments after a failed attachment included, has been opened
C17_FailureDoesNotStopTheRest ==
    \A w \in Messages :
       messages[w].pc = "saved" =>
          [i \in 1..Len(messages[w].attempted) |-> messages[w].attempted[i].suffix]
             = Artifacts(messages[w])


\* a pass of the handler of the connection in focus ended in the except
\* clause of handle_connection
HandlerError == focus # 0 /\ focus' = focus /\ running /\ ~running' /\ state' # CLOSE_CONNECTION

LineText(e) == RStripCR(e.data)

\* a trace holds, in this order: the callsign prompt and a non-empty line read
\* after it, the password prompt and a non-empty line read after it, and a
\* sent "CMS>\r"
LoggedIn(tr) ==
    \E i, j, k \in 1..Len(tr) :
       /\ 1 < i /\ i < j - 1 /\ j < k
       /\ IsSend(tr[i - 1], PromptCallsign)
       /\ tr[i].op = "readline" /\ tr[i].res = "str" /\ LineText(tr[i]) # <<>>
       /\ IsSend(tr[j - 1], PromptPassword)
       /\ tr[j].op = "readline" /\ tr[j].res = "str" /\ LineText(tr[j]) # <<>>
       /\ IsSend(tr[k], BannerCMS)

\* a pass of the loop runs _handle_client_request: a command line is read and
\* dispatched
Dispatches == running /\ state = CLIENT_REQUEST /\ reads' = reads + 1

\* C21: no command line is dispatched and no proposal is enqueued before the
\* session has read a non-empty callsign, then a non-empty password, and then
\* sent the banner that ends in "CMS>\r"
C21_CommandsOnlyAfterLogin ==
    [][/\ Dispatches => LoggedIn(trace)
       /\ (Len(message_queue') > Len(message_queue) \/ author' # author)
             => LoggedIn(trace)]_vars

\* a proposal was enqueued by a session that logged in
C21_Witness ==
    /\ message_queue # <<>>
    /\ LoggedIn(trace)
    /\ \E i \in 1..Len(trace) : IsRequest(trace[i], pfxFC)


\* how many proposals a step takes off the front of the queue
Dequeued == IF Len(message_queue') < Len(message_queue)
            THEN Len(message_queue) - Len(message_queue') ELSE 0

\* C22: a proposal leaves the queue only once its frame has been parsed,
\* decompressed, extracted and persisted: every proposal a step removes has
\* its artifacts in the mailbox, so a proposal whose processing failed is
\* still queued and is not dropped ahead of the later ones
C22_DequeueOnlyAfterPersist ==
    [][\A k \in 1..Dequeued :
          /\ message_queue' = SubSeq(message_queue, Dequeued + 1, Len(message_queue))
          /\ \E f \in DOMAIN mailbox' : HeadersFile(f, message_queue[k].message_id)]_vars


\* a pass of _handle_client_request reads a command line that begins with p
Requests(p) == Dispatches /\ NewEvents # <<>> /\ IsRequest(NewEvents[1], p)

\* the command line that pass has read
RequestText == LineText(NewEvents[1])

\* the pass leaves the session waiting for the next command line
StaysInCommand == running' /\ state' = CLIENT_REQUEST /\ next_state' = CLIENT_REQUEST

\* the pass sends nothing to the client
SendsNothing == \A i \in 1..Len(NewEvents) : NewEvents[i].op # "send"

\* C23: an FC line with kind, mid and two integer sizes appends exactly one
\* proposal carrying them to the end of the queue, keeps the entries before
\* it as they are, and leaves the session accepting further lines; an FC
\* line with too few fields is a format error: it is not passed over in
\* silence with the session carrying on
C23_FCAppendsOneProposal ==
    [][Requests(pfxFC) =>
          LET parts == Split(RequestText)
          IN  /\ (Len(parts) >= 5 /\ PyInt(parts[4]).ok /\ PyInt(parts[5]).ok)
                    => /\ message_queue' = Append(message_queue, Proposal(RequestText))
                       /\ StaysInCommand
              /\ Len(parts) < 5 => ~(StaysInCommand /\ SendsNothing)]_vars


NAKUnknown == <<59,78,65,75,58,32,85,110,107,110,111,119,110,13>>     \* ";NAK: Unknown\r"

\* a command line that begins with none of the prefixes of the if/elif chain
UnknownLine(t) ==
    /\ t # <<>>
    /\ \A p \in {pfxFC, pfxFW, pfxPQ, pfxPM, pfxComment, pfxFGt, pfxFF} : ~StartsWith(t, p)
    /\ ~MatchSID(t)

\* C24: a command line that matches no known prefix is answered with
\* ";NAK: Unknown\r", and the session stays in the command state with its
\* proposal queue unchanged
C24_UnknownLineIsNAKed ==
    [][(Requests(<<>>) /\ UnknownLine(RequestText)) =>
          /\ \E i \in 1..Len(NewEvents) : IsSend(NewEvents[i], NAKUnknown)
          /\ StaysInCommand
          /\ message_queue' = message_queue]_vars

\* C25: a line that begins ";FW:", ";PQ:", ";PM:" or "; " leaves the session
\* in the command state, sends nothing to the client, and leaves the proposal
\* queue and the peer SID unchanged
C25_InformationalLinesIgnored ==
    [][(\E p \in {pfxFW, pfxPQ, pfxPM, pfxComment} : Requests(p)) =>
          /\ StaysInCommand
          /\ SendsNothing
          /\ message_queue' = message_queue
          /\ <<author, version, feature_list>>' = <<author, version, feature_list>>]_vars


\* the segments of a bracketed line: the text between "[" and "]" cut at "-"
Segments(t) == SplitOn(SubSeq(t, 2, Len(t) - 1), 45, 1, <<>>)

\* C26: a bracketed SID line with three or more segments sets the peer SID to
\* author = first, version = second, features = third; with exactly two
\* segments the version is absent and features = second; in both cases the
\* session stays in the command state; with one segment it moves to CLOSING
C26_SIDLineSetsPeerSID ==
    [][(Requests(<<91>>) /\ MatchSID(RequestText)) =>
          LET segs == Segments(RequestText)
          IN  /\ Len(segs) >= 3 =>
                    /\ <<author', version', feature_list'>> = <<segs[1], segs[2], segs[3]>>
                    /\ StaysInCommand
              /\ Len(segs) = 2 =>
                    /\ <<author', version', feature_list'>> = <<segs[1], None, segs[2]>>
                    /\ StaysInCommand
              /\ Len(segs) = 1 => state' = CLOSE_CONNECTION]_vars

\* the line "[RMS-B]" has been handled: no version, features "B"
C26_Witness ==
    /\ \E i \in 1..Len(trace) : trace[i] = Event("readline", Line(txtSID2), "str")
    /\ inbuf = <<>>
    /\ <<author, version, feature_list>> = <<<<82, 77, 83>>, None, <<66>>>>
    /\ state = CLIENT_REQUEST

\* C27: parse rejects a frame that has a block whose length byte is 251..255
\* with a format error, and accepts every block length 0..250 (the frame is
\* otherwise right: its checksum and the sizes of its proposal match)
C27_BlockLengthLimit ==
    b2_pc = "parsed" =>
        \A n \in BlockLengths :
            (b2_raw_data = LongBlock(n) /\ b2_compressed_size = n) =>
                (b2_result.ok <=> n <= 250)

\* C28: neither parser accepts a structurally malformed frame: a first byte
\* that is not SOH, a byte at a block boundary that is neither STX nor EOT, a
\* declared block length that runs to or past the end of the buffer, a buffer
\* that ends before EOT and checksum
C28_NoMalformedFrameAccepted ==
    (b2_pc \in {"parsed", "parsed_src"} /\ b2_raw_data \in MalformedFrames) => ~b2_result.ok

\* the decompressor failed or refused the data: it could not be run, or it
\* left its output file empty
DecompressorFailed == b2_decompressed_data \in {None, <<>>}

\* C29: when the decompressor fails on the data of a frame that passed the
\* checksum and the size checks, the frame is not accepted: parse returns no
\* index for it
C29_DecompressorFailureRejects ==
    (/\ b2_pc = "parsed"
     /\ parse(b2_raw_data, b2_compressed_size, b2_decompressed_size).ok
     /\ DecompressorFailed) => ~b2_result.ok

\* some line of the headers starts with "Body: "
HasBodyHeader(headers) ==
    LET header_lines == SplitOn(headers, LF, 1, <<>>)
    IN  \E i \in 1..Len(header_lines) : StartsWith(header_lines[i], hdrBody)

\* C30: a message whose decoded payload has no "Body: " header has body
\* length 0 and an empty body, and saving it writes no '-body.txt' file
C30_NoBodyHeaderNoBodyFile ==
    \A w \in Messages :
        LET m == messages[w]
        IN  (m.pc # "none" /\ ~m.b2.raised /\ ~HasBodyHeader(m.b2.headers)) =>
                /\ m.b2.body_length = 0
                /\ m.b2.body = <<>>
                /\ \A i \in 1..Len(m.attempted) :
                       m.attempted[i] # [suffix |-> sfxBody, ok |-> TRUE]

\* the payload was composed with a body free of CR and LF
PlainBody == \A i \in 1..Len(payload_src.body) : payload_src.body[i] \notin {CR, LF}

\* C31: when the payload ends with the bytes of its last attachment (the
\* CRLF that would follow it is missing), that attachment is extracted in
\* full, with exactly its declared size
C31_LastAttachmentFillsPayload ==
    (/\ b2_pc = "extracted"
     /\ PlainBody
     /\ payload_src.chop = 2
     /\ payload_src.atts # <<>>) =>
        LET last == b2_parts.attachments[Len(b2_parts.attachments)]
        IN  /\ ~b2_parts.raised
            /\ last.data = payload_src.atts[Len(payload_src.atts)].data
            /\ Len(last.data) = last.size

\* C32: when an attachment is declared with more bytes than the payload has
\* left, the extraction stops there: no attachment listed after it receives
\* any bytes
C32_ShortAttachmentStopsExtraction ==
    (b2_pc = "extracted" /\ PlainBody /\ ~b2_parts.raised) =>
        \A i \in 1..Len(b2_parts.attachments) :
            b2_parts.attachments[i].size > Len(b2_decompressed_data) =>
                \A j \in (i + 1)..Len(b2_parts.attachments) :
                    b2_parts.attachments[j].data = None

NAKTimeout == pfxNAK \o <<84,105,109,101,111,117,116,13>>            \* ";NAK: Timeout\r"

\* the step handles "F>" with a proposal queued, and its read of the payload
\* ends on a timeout with fewer bytes than the proposal asks for
PayloadReadTimesOut ==
    /\ HandlesFGt
    /\ message_queue # <<>>
    /\ ~peer_closed'
    /\ \E i \in 1..Len(NewEvents) :
         /\ IsReadData(NewEvents[i])
         /\ Len(NewEvents[i].data) < Head(message_queue).uncompressed_size

\* C33: when the read of the payload times out with proposals queued, the
\* server sends ';NAK: Timeout\r' and closes the session, and it sends no
\* 'FF\r'
C33_PayloadTimeoutIsNAKed ==
    [][PayloadReadTimesOut =>
          /\ \E i \in 1..Len(NewEvents) : IsSend(NewEvents[i], NAKTimeout)
          /\ state' = CLOSE_CONNECTION
          /\ \A i \in 1..Len(NewEvents) : ~IsSend(NewEvents[i], FF_CR)]_vars

(***************************************************************************)
(* Termination of the session.  The handler loop runs in a thread of its   *)
(* own and is never suspended for good: a pass that can be taken is taken. *)
(* The handlers are those of the session; the histories (trace, sent, taken) *)
(* are not recorded, and reads counts the reads that find new bytes: the    *)
(* peer sends at most MaxReads times and then sends no more, while the      *)
(* session may read as often as its loop asks.                              *)
(***************************************************************************)

\* the tail of a pass of the loop of handle_connection, without the trace
LiveTail(ns, exc, cl) ==
    LET exit == exc \/ ns = CLOSE_CONNECTION
    IN  /\ acceptor' = thread_exit(acceptor, exc)
        /\ state' = IF exc THEN state ELSE ns
        /\ next_state' = ns
        /\ running' = ~exit
        /\ closed' = IF exit THEN close_connection(variant, cl, trace).closed ELSE cl
        /\ UNCHANGED <<trace, sent, taken>>

\* the peer can still send arr
LiveArrival(arr) ==
    /\ arr # <<>> => reads < MaxReads
    /\ reads' = IF arr # <<>> THEN reads + 1 ELSE reads

\* _handle_start
LiveStart ==
    /\ running /\ state = START
    /\ LiveTail(CONNECTED, FALSE, closed)
    /\ UNCHANGED <<variant, client_callsign, client_password, author, version,
                   feature_list, message_queue, inbuf, peer_closed, reads, mailbox,
                   storevars, threadvars, b2vars>>

\* _handle_connected
LiveConnected ==
    /\ running /\ state = CONNECTED
    /\ LiveTail(CALLSIGN_ENTRY, FALSE, closed)
    /\ UNCHANGED <<variant, client_callsign, client_password, author, version,
                   feature_list, message_queue, inbuf, peer_closed, reads, mailbox,
                   storevars, threadvars, b2vars>>

\* _handle_callsign_entry
LiveCallsignEntry ==
    /\ running /\ state = CALLSIGN_ENTRY
    /\ \E arr \in CallsignArrivals, how \in Waits :
         /\ PeerCan(arr, how)
         /\ LiveArrival(arr)
         /\ LET w == wait_for_input(trace, closed, inbuf, peer_closed, PromptCallsign, arr, how)
                callsign == w.kind = "str" /\ w.text # <<>>
            IN  /\ client_callsign' = IF callsign THEN w.text ELSE client_callsign
                /\ inbuf' = w.buf
                /\ peer_closed' = w.pc
                /\ LiveTail(IF w.kind = "raise" THEN next_state
                            ELSE IF callsign THEN PASSWORD_VALIDATION ELSE START,
                            w.kind = "raise", closed)
    /\ UNCHANGED <<variant, client_password, author, version, feature_list,
                   message_queue, mailbox, storevars, threadvars, b2vars>>

\* _handle_password_validation
LivePasswordValidation ==
    /\ running /\ state = PASSWORD_VALIDATION
    /\ \E arr \in PasswordArrivals, how \in Waits :
         /\ PeerCan(arr, how)
         /\ LiveArrival(arr)
         /\ LET w == wait_for_input(trace, closed, inbuf, peer_closed, PromptPassword, arr, how)
                password == w.kind = "str" /\ w.text # <<>>
            IN  /\ client_password' = IF password THEN w.text ELSE client_password
                /\ inbuf' = w.buf
                /\ peer_closed' = w.pc
                /\ LiveTail(IF w.kind = "raise" THEN next_state
                            ELSE IF password THEN LOGIN_SUCCESS ELSE START,
                            w.kind = "raise", closed)
    /\ UNCHANGED <<variant, client_callsign, author, version, feature_list,
                   message_queue, mailbox, storevars, threadvars, b2vars>>

\* _handle_login_success
LiveLoginSuccess ==
    /\ running /\ state = LOGIN_SUCCESS
    /\ LiveTail(CLIENT_REQUEST, FALSE, closed)
    /\ UNCHANGED <<variant, client_callsign, client_password, author, version,
                   feature_list, message_queue, inbuf, peer_closed, reads, mailbox,
                   storevars, threadvars, b2vars>>

\* _handle_client_request
LiveClientRequest ==
    /\ running /\ state = CLIENT_REQUEST
    /\ \E arr \in CommandArrivals, how \in Waits :
         /\ PeerCan(arr, how)
         /\ LiveArrival(arr)
         /\ LET w == wait_for_input(trace, closed, inbuf, peer_closed, <<>>, arr, how)
            IN  \E parr \in (IF ReadsPayload(w) THEN PayloadArrivals ELSE {<<>>}),
                   phow \in (IF ReadsPayload(w) THEN Waits ELSE {"timeout"}) :
                  /\ ReadsPayload(w) => (w.pc => (parr = <<>> /\ phow = "closed"))
                  /\ \E n \in (IF ReadsPayload(w)
                               THEN DataLens(w.buf, queue_get(message_queue).uncompressed_size, parr)
                               ELSE {0}) :
                       LET k == handle_client_request(w, parr, phow, n)
                       IN  /\ message_queue' = k.queue
                           /\ author' = k.author
                           /\ version' = k.version
                           /\ feature_list' = k.feature_list
                           /\ inbuf' = k.buf
                           /\ peer_closed' = k.pc
                           /\ LiveTail(k.ns, k.exc, k.closed)
    /\ UNCHANGED <<variant, client_callsign, client_password, mailbox, storevars,
                   threadvars, b2vars>>

LiveNext ==
    \/ LiveStart
    \/ LiveConnected
    \/ LiveCallsignEntry
    \/ LivePasswordValidation
    \/ LiveLoginSuccess
    \/ LiveClientRequest

SpecLive == Init /\ [][LiveNext]_vars /\ WF_vars(LiveNext)

\* the peer has closed the connection and nothing it sent is left unread
PeerGone == peer_closed /\ inbuf = <<>>

\* handle_connection has returned
Returned == ~running

\* C34: once the peer has closed the connection the session reaches the
\* closing state and handle_connection returns; the loop does not go on
\* prompting and reading
C34_SessionEnds == PeerGone ~> Returned

\* C35: whenever handle_connection has returned, by the close state or by an
\* exception, the socket of the connection has been closed
C35_ReturnClosesSocket == Returned => closed

\* C36: a session that has closed its socket makes no further pass of the
\* handler loop on it: every path that closes also ends the loop
C36_ClosedEndsLoop == closed => ~running

\* C37: the read of the payload of a proposal returns at most the number of
\* bytes asked for and takes nothing that lies behind the frame of the
\* proposal: what the client sent after the frame is left for the next read
C37_ReadStaysInFrame ==
    [][(HandlesFGt /\ message_queue # <<>>) =>
          \A i \in 1..Len(NewEvents) :
              IsReadData(NewEvents[i]) =>
                  LET message == Head(message_queue)
                      data == NewEvents[i].data
                      r == parse(data, message.compressed_size, message.uncompressed_size)
                  IN  /\ Len(data) <= message.uncompressed_size
                      /\ r.ok => r.index = Len(data)]_vars

\* the text of a header line after its name
HeaderValue(line, name) == SubSeq(line, Len(name) + 1, Len(line))

\* C38: the value extracted for a header line is the text after its name, up
\* to and without the CRLF that ends the line: the sender, the recipient,
\* the subject, the date and the file name of an attachment; a Date: line
\* with header lines after it does not abort the extraction
C38_HeaderValuesExcludeCRLF ==
    b2_pc = "extracted" =>
        \A i \in 1..Len(payload_src.lines) :
            LET line == payload_src.lines[i]
            IN  /\ StartsWith(line, hdrFrom) => b2_parts.sender = HeaderValue(line, hdrFrom)
                /\ StartsWith(line, hdrTo) => b2_parts.recipient = HeaderValue(line, hdrTo)
                /\ StartsWith(line, hdrSubject) =>
                       b2_parts.subject = HeaderValue(line, hdrSubject)
                /\ StartsWith(line, hdrDate) =>
                       /\ ~b2_parts.raised
                       /\ b2_parts.date = HeaderValue(line, hdrDate)
                /\ StartsWith(line, hdrFile) =>
                       \E j \in 1..Len(b2_parts.attachments) :
                           b2_parts.attachments[j].filename =
                               SplitOnce(HeaderValue(line, hdrFile), <<32>>)[2]

\* C39: the validation of a frame is ordered: the checksum is verified at
\* EOT, before either size check, and the compressed size is checked before
\* the embedded uncompressed size.  A frame with a wrong checksum fails with
\* the checksum error whatever its sizes; one with a right checksum and a
\* wrong compressed size fails with the compressed-size error whatever its
\* uncompressed size; the uncompressed-size error is left for a frame whose
\* checksum and compressed size are right
C39_ValidationOrder ==
    b2_pc = "parsed" =>
        LET B == frame_src.B
            bad_checksum == frame_src.trailer # calculate_checksum(B)
            bad_compressed == Len(B) # b2_compressed_size
            bad_decompressed == FromBytesLE(Slice(B, 2, 6)) # b2_decompressed_size
        IN  /\ bad_checksum => (~b2_result.ok /\ b2_result.err = "Checksum")
            /\ (~bad_checksum /\ bad_compressed) =>
                   (~b2_result.ok /\ b2_result.err = "CompressedSize")
            /\ (~bad_checksum /\ ~bad_compressed /\ bad_decompressed) =>
                   (~b2_result.ok /\ b2_result.err = "DecompressedSize")

\* C39 witness: a frame with a right checksum and both sizes wrong was refused
\* for its compressed size
C39_Witness ==
    /\ b2_pc = "parsed"
    /\ frame_src.trailer = calculate_checksum(frame_src.B)
    /\ Len(frame_src.B) # b2_compressed_size
    /\ FromBytesLE(Slice(frame_src.B, 2, 6)) # b2_decompressed_size
    /\ b2_result.err = "CompressedSize"

====
